---------------------------- MODULE Spec2Model ----------------------------
(***************************************************************************)
(* Model of the bid-document assembly engine (plg_hsdt_n8n):               *)
(*   - the batch store master_data.json written by the extractors,         *)
(*   - the formatter dispatcher and its formatting summary,                *)
(*   - the placeholder substitution engine of generate_documents.py,       *)
(*   - the assembly drivers generate_document / generate_template_15.      *)
(*                                                                         *)
(* Text is a sequence of symbols.  A symbol is one character, except that  *)
(* a placeholder key name (chu_dau_tu, ...) and an extracted value are one *)
(* symbol each; the token {{key}} is the five symbols { { key } }.         *)
(***************************************************************************)
EXTENDS Integers, Sequences, FiniteSets, TLC

VARIABLES
    \* ---- scalar substitution on one paragraph (SpecScalar)
    paragraph,      \* the runs of the paragraph before the call
    content,        \* the replacement text
    rebuilt,        \* the runs of the paragraph after the call
    sc_pc,          \* "input" | "done"
    \* ---- files of the batch
    templates,          \* templates/<name>_template.docx, read by the generators
    master_data,        \* extracted_data/master_data.json
    formatted_files,    \* docx/<key>_formatted.docx, the formatted artifacts
    formatting_summary, \* docx/formatting_summary.json
    docx_dir,           \* docx/<name>.docx, the working / output documents
    generation_summary, \* docx/generation_summary.json
    \* ---- generate_all_documents / generate_document in progress
    gen_pc,             \* "idle" | "doc" | "keys" | "done"
    doc_idx,            \* position in documents_to_generate
    key_idx,            \* position in placeholders_to_replace
    replaced_count,
    success,            \* result of the last replace_placeholder_hybrid
    generated_documents,
    run_log,            \* the per-key outcome lines printed by generate_document
    \* ---- chart scaling (SpecScale)
    time_str,           \* the content of thoi_gian_hoan_thanh
    step_count,         \* the step count detected from cac_buoc_thuc_hien
    target_days,        \* extract_days_from_time(time_str)
    scaled_timeline,    \* the scaled day counts
    scale_pc,           \* "text" | "target" | "scaled"
    \* ---- formatter
    format_log,         \* the lines printed by the formatter, as tags
    \* ---- column widths of format_table (SpecTable)
    headers,            \* the header texts, as their lengths
    rows,               \* the data rows, each a list of cell-text lengths
    column_widths,      \* the widths format_table computed
    table_pc,           \* "input" | "done"
    \* ---- cosmetic post-pass of format_conditional_table (SpecCell)
    row_cells,          \* the cells of one table row before the pass
    fixed_cells,        \* the cells of the row after the pass
    cell_pc,            \* "input" | "done"
    \* ---- markdown of a structured fragment (SpecMarkdown)
    markdown,           \* the lines of the markdown text
    parsed,             \* parse_markdown_to_structured_data(markdown)
    emitted,            \* the paragraphs format_structured_content wrote
    md_pc,              \* "input" | "parsed" | "formatted"
    \* ---- two extractor invocations on one store (SpecRace)
    loaded,             \* per invocation: the store it read
    race_pc,            \* per invocation: "idle" | "loaded" | "written"
    last_writer         \* the invocation that wrote the store last

scalar_vars == <<paragraph, content, rebuilt, sc_pc>>

file_vars == <<templates, master_data, formatted_files, formatting_summary,
               docx_dir, generation_summary>>

gen_vars == <<gen_pc, doc_idx, key_idx, replaced_count, success,
              generated_documents, run_log>>

scale_vars == <<time_str, step_count, target_days, scaled_timeline, scale_pc>>

format_vars == <<format_log>>

table_vars == <<headers, rows, column_widths, table_pc>>

cell_vars == <<row_cells, fixed_cells, cell_pc>>

md_vars == <<markdown, parsed, emitted, md_pc>>

race_vars == <<loaded, race_pc, last_writer>>

unit_vars == <<table_vars, cell_vars, md_vars, race_vars>>

vars == <<scalar_vars, file_vars, gen_vars, scale_vars, format_vars, unit_vars>>

----------------------------------------------------------------------------
(* Bounds of the model *)

\* largest number of runs a drawn paragraph is split into
MaxRuns == 3

\* largest number of blocks of a drawn template
MaxBlocks == 2

----------------------------------------------------------------------------
(* Generic helpers *)

Max(a, b) == IF a >= b THEN a ELSE b


RECURSIVE Concat(_)
\* concatenation of a sequence of sequences
Concat(ss) == IF ss = <<>> THEN <<>> ELSE Head(ss) \o Concat(Tail(ss))

\* s[from+1 .. to] with Python slice indices (0-based, end exclusive)
Slice(s, from, to) == SubSeq(s, from + 1, to)

----------------------------------------------------------------------------
(* Runs and their formatting *)

\* run.font after `run.font.name = "Times New Roman"; run.font.size = Pt(14)`
SystemFont == [name |-> "Times New Roman", size |-> 14]

\* any font a template author or a pre-authored fragment may have used
OtherFont == [name |-> "Arial", size |-> 11]

\* python-docx run.bold is tri-state: None (inherit), True, False
BoldStates == {"None", "True", "False"}

\* formatting of the runs drawn as inputs: every bold state, both italic
\* states and both fonts occur
RunFormats ==
    { [bold |-> "None",  italic |-> FALSE, font |-> OtherFont],
      [bold |-> "True",  italic |-> FALSE, font |-> SystemFont],
      [bold |-> "False", italic |-> TRUE,  font |-> OtherFont],
      [bold |-> "True",  italic |-> TRUE,  font |-> OtherFont] }

Run(text, fmt) ==
    [text |-> text, bold |-> fmt.bold, italic |-> fmt.italic, font |-> fmt.font]

\* paragraph.text: the concatenation of the runs' text
paragraph_text(runs) == Concat([j \in 1..Len(runs) |-> runs[j].text])

\* f"{{{{{placeholder_key}}}}}"
placeholder_tag(key) == <<"{", "{", key, "}", "}">>

\* str.find: 0-based offset of the first occurrence, -1 when absent
find(text, tag) ==
    LET hits == { i \in 0..(Len(text) - Len(tag)) :
                    Slice(text, i, i + Len(tag)) = tag }
    IN  IF hits = {} THEN -1
        ELSE CHOOSE i \in hits : \A j \in hits : i <= j

\* `placeholder_tag in full_text`
contains(text, tag) == find(text, tag) >= 0

\* `run.bold if run.bold is not None else False`
run_bold(run) == IF run.bold = "None" THEN "False" ELSE run.bold

\* char_formatting: the effective bold of every character, run by run
char_formatting(runs) ==
    Concat([j \in 1..Len(runs) |->
              [c \in 1..Len(runs[j].text) |-> run_bold(runs[j])]])

\* char_formatting.get(pos, False), pos 0-based
char_formatting_get(map, pos) ==
    IF pos >= 0 /\ pos < Len(map) THEN map[pos + 1] ELSE "False"

RECURSIVE scan_segments(_, _, _, _, _, _, _)
\* the loop `for i, char in enumerate(text)` that cuts text into maximal
\* segments of uniform bold; offset is the position of text[0] in the map
scan_segments(text, map, offset, i, segs, current_segment, current_bold) ==
    IF i >= Len(text)
    THEN IF current_segment /= <<>>
         THEN Append(segs, [text |-> current_segment, bold |-> current_bold])
         ELSE segs
    ELSE LET char_bold == char_formatting_get(map, offset + i)
             cur == IF current_bold = "unset" THEN char_bold ELSE current_bold
         IN  IF char_bold = cur
             THEN scan_segments(text, map, offset, i + 1, segs,
                                Append(current_segment, text[i + 1]), cur)
             ELSE scan_segments(text, map, offset, i + 1,
                                Append(segs, [text |-> current_segment, bold |-> cur]),
                                <<text[i + 1]>>, char_bold)

\* the segments emitted for a stretch of original text
uniform_segments(text, map, offset) ==
    scan_segments(text, map, offset, 0, <<>>, <<>>, "unset")

\* full_text.split(placeholder_tag, 1)[0]
before_text(full_text, tag) == Slice(full_text, 0, find(full_text, tag))

\* a split at the last occurrence instead of the first (rsplit)
after_text_last(full_text, tag) ==
    LET hits == { i \in 0..(Len(full_text) - Len(tag)) :
                    Slice(full_text, i, i + Len(tag)) = tag }
        last == CHOOSE i \in hits : \A j \in hits : i >= j
    IN  Slice(full_text, last + Len(tag), Len(full_text))

\* full_text.split(placeholder_tag, 1)[1]
after_text(full_text, tag) ==
    Slice(full_text, find(full_text, tag) + Len(tag), Len(full_text))

\* the older rule of replace_text_placeholder: bold only when one bold run
\* holds the whole token
template_bold_whole_run(runs, tag) ==
    IF \E j \in 1..Len(runs) : contains(runs[j].text, tag) /\ runs[j].bold = "True"
    THEN "True" ELSE "False"

\* template_bold = char_formatting.get(placeholder_start, False)
template_bold(runs, tag) ==
    char_formatting_get(char_formatting(runs), find(paragraph_text(runs), tag))

\* the offset without the token's own length
after_start_pos_no_tag(before, tag) == Len(before)

\* after_start_pos = len(before_text) + len(placeholder_tag)
after_start_pos(before, tag) == Len(before) + Len(tag)

\* the calls of add_segment_to_run in order: an empty text adds nothing
emitted_segments(runs, tag, new_content) ==
    LET full_text == paragraph_text(runs)
        map       == char_formatting(runs)
        before    == before_text(full_text, tag)
        after     == after_text(full_text, tag)
    IN  uniform_segments(before, map, 0)
        \o (IF new_content = <<>> THEN <<>>
            ELSE <<[text |-> new_content, bold |-> template_bold(runs, tag)]>>)
        \o uniform_segments(after, map, after_start_pos(before, tag))

\* add_segment_to_run: segment j lands in the existing run j (keeping that
\* run's italic), or in a fresh run when the paragraph has no run j; runs
\* past the last segment stay, emptied by `run.text = ""`
add_segment_to_run(runs, segs) ==
    [j \in 1..Max(Len(runs), Len(segs)) |->
        IF j <= Len(segs)
        THEN [text   |-> segs[j].text,
              bold   |-> segs[j].bold,
              italic |-> IF j <= Len(runs) THEN runs[j].italic ELSE FALSE,
              font   |-> SystemFont]
        ELSE [runs[j] EXCEPT !.text = <<>>]]

\* the body of replace_simple_text_placeholder for the paragraph it found
replace_in_paragraph(runs, key, new_content) ==
    add_segment_to_run(runs,
                       emitted_segments(runs, placeholder_tag(key), new_content))


----------------------------------------------------------------------------
(* Documents, files and the batch store *)

\* a body element: a paragraph ("p") with its runs, or a table ("tbl") with
\* the runs of its cell paragraphs; align and spacing are paragraph formats
Block(kind, runs, align) ==
    [kind |-> kind, runs |-> runs, align |-> align, spacing |-> "single"]

\* a file: absent, or a document (its body elements in order)
NoFile == [exists |-> FALSE, blocks |-> <<>>]

File(blocks) == [exists |-> TRUE, blocks |-> blocks]

\* the keys of the model: a simple_text key and a table key
Keys == {"chu_dau_tu", "pham_vi_cung_cap"}

\* the documents of documents_to_generate that are modelled (the first two)
documents_to_generate == <<"02_MUC_DO_HIEU_BIET", "04_CAM_KET_DAP_UNG_YEU_CAU_CHUONG_V">>

\* the output of generate_template_15
Template15Name == "15_KE_HOACH_TRIEN_KHAI_THUC_HIEN"

DocNames == { documents_to_generate[i] : i \in DOMAIN documents_to_generate }
            \cup {Template15Name}

\* master_data["placeholders"] is a JSON object: an ordered list of entries
dict_has(placeholders, key) ==
    \E j \in 1..Len(placeholders) : placeholders[j].key = key

dict_get(placeholders, key) ==
    placeholders[CHOOSE j \in 1..Len(placeholders) : placeholders[j].key = key]

\* the entry added at the end whether or not the key is there
dict_set_append(placeholders, entry) == Append(placeholders, entry)

\* placeholders[key] = entry: overwrite in place, or append a new key
dict_set(placeholders, entry) ==
    IF dict_has(placeholders, entry.key)
    THEN [j \in 1..Len(placeholders) |->
            IF placeholders[j].key = entry.key THEN entry ELSE placeholders[j]]
    ELSE Append(placeholders, entry)

\* the content of a store entry: a string (simple_text), or a payload of
\* another form whose text plays no part in substitution; step_count and
\* source_file are the fields of that name of a dict payload (0 and "" when
\* the payload has no such field)
StrContent(text) ==
    [form |-> "str", text |-> text, step_count |-> 0, source_file |-> ""]

\* a table payload with headers and data rows
TableContent ==
    [form |-> "table", text |-> <<"r">>, step_count |-> 0, source_file |-> ""]

\* a table payload with headers and no data row
HeaderOnlyTable ==
    [form |-> "table", text |-> <<>>, step_count |-> 0, source_file |-> ""]

\* the payload CacBuocExtractor writes: a dict with step_count and
\* source_file and neither headers nor rows
ConditionalContent(steps, source_file) ==
    [form |-> "dict", text |-> <<>>, step_count |-> steps, source_file |-> source_file]

\* a list of structured elements
ListContent(elements) ==
    [form |-> "list", text |-> elements, step_count |-> 0, source_file |-> ""]

\* an entry without content: placeholder_data.get("content") is None
NoContent ==
    [form |-> "none", text |-> <<>>, step_count |-> 0, source_file |-> ""]

Entry(key, type, payload) == [key |-> key, type |-> type, content |-> payload]

NoMasterData == [exists |-> FALSE, placeholders |-> <<>>,
                 extraction_log |-> [k \in Keys |-> "absent"]]

NoSummary == [exists |-> FALSE, formatted_placeholders |-> <<>>]

NoGenerationSummary == [exists |-> FALSE, generated_documents |-> <<>>,
                        total_documents |-> 0, available_placeholders |-> <<>>]

FilesEmpty ==
    /\ templates = [n \in DocNames |-> NoFile]
    /\ master_data = NoMasterData
    /\ formatted_files = [k \in Keys |-> NoFile]
    /\ formatting_summary = NoSummary
    /\ docx_dir = [n \in DocNames |-> NoFile]
    /\ generation_summary = NoGenerationSummary

\* no chart is being scaled
ScaleOff ==
    /\ time_str = <<>>
    /\ step_count = 21
    /\ target_days = 0
    /\ scaled_timeline = <<>>
    /\ scale_pc = "off"

\* no table is being measured
TableOff ==
    /\ headers = <<>> /\ rows = <<>> /\ column_widths = <<>> /\ table_pc = "off"

\* no table row is being post-processed
CellOff ==
    /\ row_cells = <<>> /\ fixed_cells = <<>> /\ cell_pc = "off"

\* no markdown is being parsed
MdOff ==
    /\ markdown = <<>> /\ parsed = <<>> /\ emitted = <<>> /\ md_pc = "off"

\* no separate extractor invocation is under way
RaceOff ==
    /\ loaded = <<>> /\ race_pc = <<>> /\ last_writer = "none"

UnitOff == TableOff /\ CellOff /\ MdOff /\ RaceOff

GenIdle ==
    /\ gen_pc = "idle"
    /\ doc_idx = 0
    /\ key_idx = 0
    /\ replaced_count = 0
    /\ success = FALSE
    /\ generated_documents = <<>>
    /\ run_log = <<>>

----------------------------------------------------------------------------
(* The substitution engine on a document (generate_documents.py) *)

\* position of the last body paragraph whose text holds the tag
last_match(blocks, tag) ==
    LET hits == { i \in 1..Len(blocks) :
                    blocks[i].kind = "p" /\ contains(paragraph_text(blocks[i].runs), tag) }
    IN  IF hits = {} THEN 0 ELSE CHOOSE i \in hits : \A j \in hits : i >= j

\* `for paragraph in doc.paragraphs: if placeholder_tag in paragraph.text`:
\* position of the first body paragraph whose text holds the tag, 0 if none
\* (doc.paragraphs does not descend into table cells)
first_match(blocks, tag) ==
    LET hits == { i \in 1..Len(blocks) :
                    blocks[i].kind = "p" /\ contains(paragraph_text(blocks[i].runs), tag) }
    IN  IF hits = {} THEN 0 ELSE CHOOSE i \in hits : \A j \in hits : i <= j

\* a version that reports success whether or not a paragraph was found
replace_simple_text_placeholder_true(blocks, key, new_content) ==
    LET i == first_match(blocks, placeholder_tag(key))
    IN  IF i = 0 THEN [blocks |-> blocks, replaced |-> TRUE]
        ELSE [blocks |-> [blocks EXCEPT ![i].runs =
                             replace_in_paragraph(@, key, new_content)],
              replaced |-> TRUE]

\* replace_simple_text_placeholder: the first body paragraph holding the
\* token is rebuilt, then `break`
replace_simple_text_placeholder(blocks, key, new_content) ==
    LET i == first_match(blocks, placeholder_tag(key))
    IN  IF i = 0 THEN [blocks |-> blocks, replaced |-> FALSE]
        ELSE [blocks |-> [blocks EXCEPT ![i].runs =
                             replace_in_paragraph(@, key, new_content)],
              replaced |-> TRUE]

\* an inserted element left as it is in the artifact
format_inserted_none(block) == block

\* the font pass on an inserted element: the runs of an inserted paragraph
\* get the system font; an inserted table is left as copied
format_inserted(block) ==
    IF block.kind = "p"
    THEN [block EXCEPT !.runs = [j \in 1..Len(@) |-> [@[j] EXCEPT !.font = SystemFont]]]
    ELSE block

\* the elements inserted in the order of iteration instead of its reverse
inserted_elements_reversed(source_elements) ==
    [j \in 1..Len(source_elements) |->
        format_inserted(source_elements[Len(source_elements) + 1 - j])]

\* `for ... in reversed(source_elements): parent.insert(index, deepcopy(...))`:
\* the elements end up at index in the order of the artifact
inserted_elements(source_elements) ==
    [j \in 1..Len(source_elements) |-> format_inserted(source_elements[j])]

\* replace_structured_placeholder: the first body paragraph holding the token
\* is removed and the artifact's elements are inserted at its position
replace_structured_placeholder(blocks, key, source) ==
    LET i == first_match(blocks, placeholder_tag(key))
    IN  IF ~source.exists \/ i = 0
        THEN [blocks |-> blocks, replaced |-> FALSE]
        ELSE [blocks |-> SubSeq(blocks, 1, i - 1)
                         \o inserted_elements(source.blocks)
                         \o SubSeq(blocks, i + 1, Len(blocks)),
              replaced |-> TRUE]

\* replace_placeholder_hybrid
replace_placeholder_hybrid(blocks, key, master, artifacts) ==
    IF ~dict_has(master.placeholders, key)
    THEN [blocks |-> blocks, replaced |-> FALSE]
    ELSE LET placeholder_data == dict_get(master.placeholders, key)
         IN  IF placeholder_data.type = "simple_text"
             THEN replace_simple_text_placeholder(blocks, key, placeholder_data.content.text)
             ELSE IF placeholder_data.type \in {"structured_content", "table"}
             THEN replace_structured_placeholder(blocks, key, artifacts[key])
             ELSE [blocks |-> blocks, replaced |-> FALSE]

\* apply_final_formatting: line spacing 1.4 on every paragraph and on the
\* paragraphs of every table cell
apply_final_formatting(blocks) ==
    [j \in 1..Len(blocks) |-> [blocks[j] EXCEPT !.spacing = "1.4"]]

\* the document is never written back
persist_never(file, blocks, ok) == file

\* `if success: doc.save(working_file)`: the document on disk after one key
persist(file, blocks, ok) == IF ok THEN File(blocks) ELSE file

\* every attempt counted
count_attempted(count, ok) == count + 1

\* `if success: replaced_count += 1`
count_replaced(count, ok) == IF ok THEN count + 1 ELSE count

----------------------------------------------------------------------------
(* SpecScalar: replace_simple_text_placeholder on one drawn paragraph *)

\* the key whose token the drawn paragraphs hold
ScalarKey == "chu_dau_tu"

ParagraphTexts ==
    { <<"x">> \o placeholder_tag(ScalarKey) \o <<"y">>,
      placeholder_tag(ScalarKey) \o placeholder_tag(ScalarKey) }

Contents == { <<>>, <<"V">> }

\* index of the run that holds character i when the text is cut after the
\* positions in cuts
RunIndex(cuts, i) == 1 + Cardinality({c \in cuts : c < i})

\* the text cut after every position in cuts, run r formatted fmts[r]
SplitRuns(text, cuts, fmts) ==
    [r \in 1..(Cardinality(cuts) + 1) |->
        LET idx == { i \in 1..Len(text) : RunIndex(cuts, i) = r }
            lo  == CHOOSE i \in idx : \A j \in idx : i <= j
            hi  == CHOOSE i \in idx : \A j \in idx : i >= j
        IN  Run(SubSeq(text, lo, hi), fmts[r])]

\* the paragraph is a text of ParagraphTexts split in any way into at most
\* MaxRuns non-empty runs, each run in any format of RunFormats
InitScalar ==
    /\ \E text \in ParagraphTexts :
          \E cuts \in { c \in SUBSET (1..(Len(text) - 1)) : Cardinality(c) < MaxRuns } :
             \E fmts \in [1..(Cardinality(cuts) + 1) -> RunFormats] :
                paragraph = SplitRuns(text, cuts, fmts)
    /\ content \in Contents
    /\ rebuilt = <<>>
    /\ sc_pc = "input"
    /\ FilesEmpty
    /\ GenIdle
    /\ ScaleOff
    /\ format_log = <<>>
    /\ UnitOff

\* one call of replace_simple_text_placeholder on the paragraph
ReplaceSimpleText ==
    /\ sc_pc = "input"
    /\ contains(paragraph_text(paragraph), placeholder_tag(ScalarKey))
    /\ rebuilt' = replace_in_paragraph(paragraph, ScalarKey, content)
    /\ sc_pc' = "done"
    /\ UNCHANGED <<paragraph, content, file_vars, gen_vars, scale_vars, format_vars, unit_vars>>

NextScalar == ReplaceSimpleText

SpecScalar == InitScalar /\ [][NextScalar]_vars

----------------------------------------------------------------------------
(* SpecGen: generate_all_documents on drawn templates, store and artifacts *)

PlainFormat == [bold |-> "None", italic |-> FALSE, font |-> OtherFont]

BoldFormat == [bold |-> "True", italic |-> FALSE, font |-> OtherFont]

ItalicFormat == [bold |-> "False", italic |-> TRUE, font |-> OtherFont]

\* the body elements templates are drawn from
TemplateBlocks ==
    { \* text, then the simple_text token in a bold run
      Block("p", <<Run(<<"x">>, PlainFormat),
                   Run(placeholder_tag("chu_dau_tu"), BoldFormat)>>, "left"),
      \* the table token alone in its paragraph
      Block("p", <<Run(placeholder_tag("pham_vi_cung_cap"), PlainFormat)>>, "left"),
      \* both tokens in one paragraph
      Block("p", <<Run(placeholder_tag("chu_dau_tu"), ItalicFormat),
                   Run(placeholder_tag("pham_vi_cung_cap"), PlainFormat)>>, "justify"),
      \* a table with both tokens in its cells
      Block("tbl", <<Run(placeholder_tag("chu_dau_tu"), PlainFormat),
                     Run(placeholder_tag("pham_vi_cung_cap"), PlainFormat)>>, "center") }

TemplateInputs ==
    UNION { [1..n -> TemplateBlocks] : n \in 0..MaxBlocks }

\* a formatted artifact: a paragraph and a table, neither in the system font
ArtifactBlocks ==
    << Block("p", <<Run(<<"A">>, BoldFormat), Run(<<"a">>, ItalicFormat)>>, "justify"),
       Block("tbl", <<Run(<<"B">>, BoldFormat), Run(<<"b">>, PlainFormat)>>, "center") >>

\* the value extracted for chu_dau_tu
ExtractedValue == <<"V">>

MasterInputs ==
    {NoMasterData} \cup
    { [exists |-> TRUE,
       placeholders |-> first \o <<Entry("pham_vi_cung_cap", type, TableContent)>>,
       extraction_log |-> [k \in Keys |-> "success"]] :
        first \in { <<>>, <<Entry("chu_dau_tu", "simple_text", StrContent(ExtractedValue))>> },
        type \in {"table", "structured_content", "unknown"} }

SummaryInputs ==
    {NoSummary} \cup
    { [exists |-> TRUE, formatted_placeholders |-> ks] :
        ks \in { <<>>, <<"chu_dau_tu">>, <<"pham_vi_cung_cap">>,
                 <<"chu_dau_tu", "pham_vi_cung_cap">>,
                 <<"pham_vi_cung_cap", "chu_dau_tu">> } }

InitGen ==
    /\ templates \in
         { [n \in DocNames |->
              IF n = documents_to_generate[1] THEN t1
              ELSE IF n = documents_to_generate[2] THEN t2 ELSE NoFile] :
           t1 \in {NoFile} \cup { File(b) : b \in TemplateInputs },
           t2 \in {NoFile, File(<<Block("p", <<Run(placeholder_tag("chu_dau_tu"),
                                                   PlainFormat)>>, "left")>>)} }
    /\ master_data \in MasterInputs
    /\ formatted_files \in
         { [k \in Keys |-> IF k = "pham_vi_cung_cap" THEN f ELSE NoFile] :
           f \in {NoFile, File(ArtifactBlocks)} }
    /\ formatting_summary \in SummaryInputs
    /\ docx_dir = [n \in DocNames |-> NoFile]
    /\ generation_summary = NoGenerationSummary
    /\ GenIdle
    /\ paragraph = <<>> /\ content = <<>> /\ rebuilt = <<>> /\ sc_pc = "off"
    /\ ScaleOff
    /\ format_log = <<>>
    /\ UnitOff

\* placeholders_to_replace: the formatted placeholders of the summary
placeholders_to_replace == formatting_summary.formatted_placeholders

\* the document generate_document is working on
output_name == documents_to_generate[doc_idx]

\* only the missing summary file ends the run
summary_found(summary) == summary.exists

\* load_formatting_summary succeeded and `if not available_placeholders` is
\* false
has_available_placeholders(summary) ==
    summary.exists /\ summary.formatted_placeholders /= <<>>

RECURSIVE process_placeholders(_, _, _, _, _)
\* the loop of generate_document over placeholders_to_replace: the file on
\* disk and replaced_count after the keys from position i on
process_placeholders(out, keys, i, master, artifacts) ==
    IF i > Len(keys) THEN out
    ELSE LET r == replace_placeholder_hybrid(out.file.blocks, keys[i], master, artifacts)
         IN  process_placeholders(
                 [file |-> persist(out.file, r.blocks, r.replaced),
                  replaced_count |-> count_replaced(out.replaced_count, r.replaced)],
                 keys, i + 1, master, artifacts)

\* generate_document on an existing template and store: the working file and
\* replaced_count it returns
generate_document(template_file, keys, master, artifacts) ==
    LET out == process_placeholders([file |-> template_file, replaced_count |-> 0],
                                    keys, 1, master, artifacts)
    IN  [file |-> File(apply_final_formatting(out.file.blocks)),
         replaced_count |-> out.replaced_count]

\* generate_all_documents up to its loop: no summary file or no formatted
\* placeholder ends the run with False
GenerateAllStart ==
    /\ gen_pc = "idle"
    /\ IF ~has_available_placeholders(formatting_summary)
       THEN /\ gen_pc' = "done"
            /\ UNCHANGED doc_idx
       ELSE /\ gen_pc' = "doc"
            /\ doc_idx' = 1
    /\ generated_documents' = <<>>
    /\ UNCHANGED <<key_idx, replaced_count, success, run_log>>
    /\ UNCHANGED <<scalar_vars, scale_vars, format_vars, unit_vars, file_vars>>

\* generate_document up to its loop: load_master_data and
\* copy_template_to_working_file both succeed
GenerateDocumentBegin ==
    /\ gen_pc = "doc"
    /\ doc_idx <= Len(documents_to_generate)
    /\ master_data.exists /\ templates[output_name].exists
    /\ docx_dir' = [docx_dir EXCEPT ![output_name] = templates[output_name]]
    /\ replaced_count' = 0
    /\ key_idx' = 1
    /\ gen_pc' = "keys"
    /\ UNCHANGED <<doc_idx, success, generated_documents, run_log>>
    /\ UNCHANGED <<scalar_vars, scale_vars, format_vars, unit_vars, templates, master_data, formatted_files,
                   formatting_summary, generation_summary>>

\* the missing file ends the loop over the documents
GenerateDocumentMissingAborts ==
    /\ gen_pc = "doc"
    /\ doc_idx <= Len(documents_to_generate)
    /\ ~(master_data.exists /\ templates[output_name].exists)
    /\ doc_idx' = Len(documents_to_generate) + 1
    /\ UNCHANGED <<gen_pc, key_idx, replaced_count, success, generated_documents, run_log>>
    /\ UNCHANGED <<scalar_vars, scale_vars, format_vars, unit_vars, file_vars>>

\* load_master_data or copy_template_to_working_file raises FileNotFoundError,
\* which generate_all_documents catches: `continue` with the next document
GenerateDocumentMissing ==
    /\ gen_pc = "doc"
    /\ doc_idx <= Len(documents_to_generate)
    /\ ~(master_data.exists /\ templates[output_name].exists)
    /\ doc_idx' = doc_idx + 1
    /\ UNCHANGED <<gen_pc, key_idx, replaced_count, success, generated_documents, run_log>>
    /\ UNCHANGED <<scalar_vars, scale_vars, format_vars, unit_vars, file_vars>>

\* one iteration of the loop of generate_document: load the working file,
\* replace_placeholder_hybrid, save on success
ReplaceNextPlaceholder ==
    /\ gen_pc = "keys"
    /\ key_idx <= Len(placeholders_to_replace)
    /\ LET placeholder_key == placeholders_to_replace[key_idx]
           r == replace_placeholder_hybrid(docx_dir[output_name].blocks, placeholder_key,
                                           master_data, formatted_files)
       IN  /\ success' = r.replaced
           /\ replaced_count' = count_replaced(replaced_count, r.replaced)
           /\ docx_dir' = [docx_dir EXCEPT
                             ![output_name] = persist(@, r.blocks, r.replaced)]
           /\ run_log' = Append(run_log, [doc |-> output_name, key |-> placeholder_key,
                                          outcome |-> IF r.replaced THEN "replaced"
                                                      ELSE "failed"])
    /\ key_idx' = key_idx + 1
    /\ UNCHANGED <<gen_pc, doc_idx, generated_documents>>
    /\ UNCHANGED <<scalar_vars, scale_vars, format_vars, unit_vars, templates, master_data, formatted_files,
                   formatting_summary, generation_summary>>

\* Document(working_file) raises (an I/O error) while a key is processed: the
\* exception leaves generate_document and is caught by generate_all_documents
ReplaceNextPlaceholderRaises ==
    /\ gen_pc = "keys"
    /\ key_idx <= Len(placeholders_to_replace)
    /\ run_log' = Append(run_log, [doc |-> output_name,
                                   key |-> placeholders_to_replace[key_idx],
                                   outcome |-> "raised"])
    /\ success' = FALSE
    /\ gen_pc' = "doc"
    /\ doc_idx' = doc_idx + 1
    /\ UNCHANGED <<key_idx, replaced_count, generated_documents>>
    /\ UNCHANGED <<scalar_vars, scale_vars, format_vars, unit_vars, file_vars>>

\* the end of generate_document (final formatting, save) and the entry
\* generate_all_documents appends for it
FinishDocument ==
    /\ gen_pc = "keys"
    /\ key_idx > Len(placeholders_to_replace)
    /\ docx_dir' = [docx_dir EXCEPT
                      ![output_name] = File(apply_final_formatting(@.blocks))]
    /\ generated_documents' =
          Append(generated_documents,
                 [file |-> output_name, template |-> output_name,
                  placeholders_replaced |-> replaced_count,
                  total_placeholders |-> Len(placeholders_to_replace)])
    /\ gen_pc' = "doc"
    /\ doc_idx' = doc_idx + 1
    /\ UNCHANGED <<key_idx, replaced_count, success, run_log>>
    /\ UNCHANGED <<scalar_vars, scale_vars, format_vars, unit_vars, templates, master_data, formatted_files,
                   formatting_summary, generation_summary>>

\* a summary that leaves the list of keys out
WriteGenerationSummaryNoKeys ==
    /\ gen_pc = "doc"
    /\ doc_idx > Len(documents_to_generate)
    /\ generation_summary' = [exists |-> TRUE,
                              generated_documents |-> generated_documents,
                              total_documents |-> Len(generated_documents),
                              available_placeholders |-> <<>>]
    /\ gen_pc' = "done"
    /\ UNCHANGED <<doc_idx, key_idx, replaced_count, success, generated_documents, run_log>>
    /\ UNCHANGED <<scalar_vars, scale_vars, format_vars, unit_vars, templates, master_data, formatted_files,
                   formatting_summary, docx_dir>>

\* the generation summary written after the last document
WriteGenerationSummary ==
    /\ gen_pc = "doc"
    /\ doc_idx > Len(documents_to_generate)
    /\ generation_summary' = [exists |-> TRUE,
                              generated_documents |-> generated_documents,
                              total_documents |-> Len(generated_documents),
                              available_placeholders |-> placeholders_to_replace]
    /\ gen_pc' = "done"
    /\ UNCHANGED <<doc_idx, key_idx, replaced_count, success, generated_documents, run_log>>
    /\ UNCHANGED <<scalar_vars, scale_vars, format_vars, unit_vars, templates, master_data, formatted_files,
                   formatting_summary, docx_dir>>

NextGen ==
    \/ GenerateAllStart
    \/ GenerateDocumentBegin
    \/ GenerateDocumentMissing
    \/ ReplaceNextPlaceholder
    \/ ReplaceNextPlaceholderRaises
    \/ FinishDocument
    \/ WriteGenerationSummary

SpecGen == InitGen /\ [][NextGen]_vars

----------------------------------------------------------------------------
(* Spec: the batch pipeline: extractors, formatter and generators run one
   after the other on the files of one batch *)

\* the value an extractor stores when the model call found nothing
NotFoundText == <<"[KHÔNG TÌM THẤY]">>

\* the master data an extractor starts from when master_data.json is missing
new_master_data ==
    [exists |-> TRUE, placeholders |-> <<>>,
     extraction_log |-> [k \in Keys |-> "absent"]]

\* `if master_file.exists(): json.load(f) else: {...}`
load_or_new(master) == IF master.exists THEN master ELSE new_master_data

\* save_to_master_data: the entry is written whatever the content is, the
\* log status beside it
save_to_master_data(master, key, type, payload, status) ==
    [load_or_new(master) EXCEPT
        !.placeholders = dict_set(@, Entry(key, type, payload)),
        !.extraction_log[key] = status]

\* save_extraction_failure: only the log entry is written
save_extraction_failure(master, key) ==
    [load_or_new(master) EXCEPT !.extraction_log[key] = "failed"]

\* ChuDauTuExtractor.extract: the PDF is missing or unreadable, or the model
\* answers with a value or with the not-found text
ExtractChuDauTu ==
    /\ gen_pc = "idle"
    /\ \/ master_data' = save_extraction_failure(master_data, "chu_dau_tu")
       \/ \E extracted_content \in {ExtractedValue, NotFoundText} :
             master_data' =
                save_to_master_data(master_data, "chu_dau_tu", "simple_text",
                                    StrContent(extracted_content),
                                    IF extracted_content /= NotFoundText
                                    THEN "success" ELSE "failed")
    /\ UNCHANGED <<templates, formatted_files, formatting_summary, docx_dir,
                   generation_summary>>
    /\ UNCHANGED <<scalar_vars, scale_vars, format_vars, unit_vars, gen_vars>>

\* PhamViExtractor.extract: a failure before the table is structured, or a
\* structured table (with or without data rows) saved with status success
ExtractPhamVi ==
    /\ gen_pc = "idle"
    /\ \/ master_data' = save_extraction_failure(master_data, "pham_vi_cung_cap")
       \/ \E structured_data \in {TableContent, HeaderOnlyTable} :
             master_data' =
                save_to_master_data(master_data, "pham_vi_cung_cap", "table",
                                    structured_data, "success")
    /\ UNCHANGED <<templates, formatted_files, formatting_summary, docx_dir,
                   generation_summary>>
    /\ UNCHANGED <<scalar_vars, scale_vars, format_vars, unit_vars, gen_vars>>

\* a character lxml refuses in the text of a document (a control character
\* such as a form feed)
ControlChar == "<FF>"

\* the text can be written into a document
xml_compatible(text) == \A i \in 1..Len(text) : text[i] /= ControlChar

\* the run formatting the formatters write
FormatterFont == [bold |-> "None", italic |-> FALSE, font |-> SystemFont]

\* the paragraph format_simple_text writes: one run in the system font (no
\* run for an empty text)
format_simple_text(payload) ==
    File(<<Block("p", IF payload.text = <<>> THEN <<>>
                      ELSE <<Run(payload.text, FormatterFont)>>,
                 "left")>>)

\* the table format_table writes (a bold header run, a data run, both in the
\* system font), or no file when there is no header or no data row
format_table(table_data) ==
    IF table_data.text = <<>> THEN NoFile
    ELSE File(<<Block("tbl",
                      <<Run(<<"h">>, [bold |-> "True", italic |-> FALSE, font |-> SystemFont]),
                        Run(table_data.text, FormatterFont)>>,
                      "center")>>)

\* `not structured_data`: None, "", [] and {} are false
is_empty(payload) ==
    \/ payload.form = "none"
    \/ payload.form \in {"str", "list"} /\ payload.text = <<>>
    \/ payload.form = "dict" /\ payload.step_count = 0 /\ payload.source_file = ""

\* format_structured_content: no file for an empty payload, else one
\* justified paragraph per element
format_structured_content(structured_data) ==
    IF is_empty(structured_data) THEN NoFile
    ELSE File([j \in 1..Len(structured_data.text) |->
                  Block("p", <<Run(<<structured_data.text[j]>>, FormatterFont)>>,
                        "justify")])

\* str(content)
str(payload) ==
    IF payload.form = "str" THEN payload.text
    ELSE IF payload.form = "none" THEN <<"None">>
    ELSE IF payload.form = "list" THEN <<"[">> \o payload.text \o <<"]">>
    ELSE IF payload.form = "table"
    THEN <<"{", "'headers': ['h'], 'rows': [">> \o payload.text \o <<"]", "}">>
    ELSE <<"{">>
         \o (IF payload.step_count /= 0
             THEN <<"'step_count': ", ToString(payload.step_count)>> ELSE <<>>)
         \o (IF payload.source_file /= ""
             THEN <<"'source_file': ", payload.source_file>> ELSE <<>>)
         \o <<"}">>

\* an unknown type is not formatted
format_unknown_none(payload) == NoFile

\* the else branch of dispatch_formatter:
\* formatter.format_simple_text(placeholder_key, str(content))
format_unknown(payload) == format_simple_text(StrContent(str(payload)))

\* the formatter the entry is dispatched to raises: a text that cannot be
\* written, table_data.get on a payload that is no dict, element.get on the
\* items of a non-empty payload that is no list of elements
formatter_raises(placeholder_data) ==
    LET payload == placeholder_data.content
    IN  IF placeholder_data.type = "simple_text" THEN ~xml_compatible(payload.text)
        ELSE IF placeholder_data.type = "table" THEN payload.form \notin {"table", "dict"}
        ELSE IF placeholder_data.type = "structured_content"
        THEN ~is_empty(payload) /\ payload.form /= "list"
        ELSE ~xml_compatible(str(payload))

\* dispatch_formatter: the file the formatter of the entry's type returns,
\* no file when it raises
dispatch_formatter(placeholder_data) ==
    IF formatter_raises(placeholder_data) THEN NoFile
    ELSE IF placeholder_data.type = "simple_text"
    THEN format_simple_text(placeholder_data.content)
    ELSE IF placeholder_data.type = "table"
    THEN format_table(placeholder_data.content)
    ELSE IF placeholder_data.type = "structured_content"
    THEN format_structured_content(placeholder_data.content)
    ELSE format_unknown(placeholder_data.content)

LogLine(key, line) == [key |-> key, line |-> line]

\* the warnings and errors dispatch_formatter and the formatter it calls
\* print for an entry
dispatch_log(key, placeholder_data) ==
    (IF placeholder_data.type \notin {"simple_text", "table", "structured_content"}
     THEN <<LogLine(key, "Unknown content type, defaulting to simple text")>>
     ELSE <<>>)
    \o (IF formatter_raises(placeholder_data)
        THEN <<LogLine(key, "Error in formatter")>>
        ELSE IF placeholder_data.type = "table"
                /\ ~format_table(placeholder_data.content).exists
        THEN <<LogLine(key, "Empty table data")>>
        ELSE IF placeholder_data.type = "structured_content"
                /\ ~format_structured_content(placeholder_data.content).exists
        THEN <<LogLine(key, "Empty structured content")>>
        ELSE <<>>)

\* the keys format_all_extracted_content formats, in the order of the store:
\* logged as success and with a file returned by the formatter
formatted_keys(master) ==
    SelectSeq([j \in 1..Len(master.placeholders) |-> master.placeholders[j].key],
              LAMBDA k : /\ master.extraction_log[k] = "success"
                         /\ dispatch_formatter(dict_get(master.placeholders, k)).exists)

RECURSIVE format_all_log(_, _)
\* what the loop of format_all_extracted_content prints from entry j on
format_all_log(master, j) ==
    IF j > Len(master.placeholders) THEN <<>>
    ELSE LET placeholder_data == master.placeholders[j]
             k == placeholder_data.key
         IN  (IF master.extraction_log[k] /= "success"
              THEN <<LogLine(k, "Skipping - extraction failed")>>
              ELSE dispatch_log(k, placeholder_data)
                   \o (IF dispatch_formatter(placeholder_data).exists THEN <<>>
                       ELSE <<LogLine(k, "Failed to format")>>))
             \o format_all_log(master, j + 1)

\* format_all_extracted_content: artifacts written for the formatted keys
\* and formatting_summary.json rewritten; format_log is what this run printed
FormatAllExtractedContent ==
    /\ gen_pc = "idle"
    /\ master_data.exists
    /\ master_data.placeholders /= <<>>
    /\ formatted_files' =
          [k \in Keys |->
              IF \E j \in 1..Len(formatted_keys(master_data)) :
                    formatted_keys(master_data)[j] = k
              THEN dispatch_formatter(dict_get(master_data.placeholders, k))
              ELSE formatted_files[k]]
    /\ formatting_summary' =
          [exists |-> TRUE, formatted_placeholders |-> formatted_keys(master_data)]
    /\ format_log' = format_all_log(master_data, 1)
    /\ UNCHANGED <<templates, master_data, docx_dir, generation_summary>>
    /\ UNCHANGED <<scalar_vars, scale_vars, gen_vars, unit_vars>>

\* placeholder_mappings of generate_template_15: the text keys of the model
template_15_text_keys == <<"chu_dau_tu">>

\* generate_template_15: bold only when one bold run holds the whole token
template_bold_15(runs, tag) ==
    IF \E j \in 1..Len(runs) : contains(runs[j].text, tag) /\ runs[j].bold = "True"
    THEN "True" ELSE "False"

\* replace_text_placeholder on the paragraph it found: before (not bold),
\* the content (template bold), after (not bold), written into the run slots
replace_text_in_paragraph(runs, key, new_content) ==
    LET tag       == placeholder_tag(key)
        full_text == paragraph_text(runs)
        before    == before_text(full_text, tag)
        after     == after_text(full_text, tag)
    IN  add_segment_to_run(runs,
            (IF before = <<>> THEN <<>> ELSE <<[text |-> before, bold |-> "False"]>>)
            \o <<[text |-> new_content, bold |-> template_bold_15(runs, tag)]>>
            \o (IF after = <<>> THEN <<>> ELSE <<[text |-> after, bold |-> "False"]>>))

\* replace_text_placeholder of generate_template_15
replace_text_placeholder(blocks, key, new_content) ==
    LET i == first_match(blocks, placeholder_tag(key))
    IN  IF i = 0 THEN [blocks |-> blocks, replaced |-> FALSE]
        ELSE [blocks |-> [blocks EXCEPT ![i].runs =
                             replace_text_in_paragraph(@, key, new_content)],
              replaced |-> TRUE]

RECURSIVE process_text_placeholders(_, _, _, _)
\* the loop of generate_template_15 over its text placeholders: a key of the
\* store is substituted (its extraction status is not read) and the file
\* saved on success
process_text_placeholders(file, keys, i, master) ==
    IF i > Len(keys) THEN file
    ELSE IF ~dict_has(master.placeholders, keys[i])
    THEN process_text_placeholders(file, keys, i + 1, master)
    ELSE LET r == replace_text_placeholder(file.blocks, keys[i],
                      dict_get(master.placeholders, keys[i]).content.text)
         IN  process_text_placeholders(persist(file, r.blocks, r.replaced),
                                       keys, i + 1, master)

\* what the chart step leaves for replace_image_placeholder: no image file
\* (the chart failed), a picture python-docx can embed, or a file it rejects
ImageOutcomes == {"missing", "picture", "fallback"}

\* the paragraph after `paragraph.clear(); run = paragraph.add_run();
\* run.add_picture(...)`: one run without text, or the fallback text
image_run(key, image) ==
    IF image = "picture" THEN Run(<<>>, PlainFormat)
    ELSE Run(<<"[", "IMAGE", key, "]">>, PlainFormat)

\* replace_image_placeholder: nothing without the image file; else the first
\* body paragraph holding the tag is cleared, given the picture and centered
\* (the templates of the model hold no token inside a table cell)
replace_image_placeholder(blocks, key, image) ==
    LET i == first_match(blocks, placeholder_tag(key))
    IN  IF image = "missing" \/ i = 0 THEN [blocks |-> blocks, replaced |-> FALSE]
        ELSE [blocks |-> [blocks EXCEPT ![i].runs = <<image_run(key, image)>>,
                                        ![i].align = "center"],
              replaced |-> TRUE]

\* the working file of generate_template_15 after its text and image
\* placeholders
template_15_output(image) ==
    LET texted == process_text_placeholders(templates[Template15Name],
                                            template_15_text_keys, 1, master_data)
        r      == replace_image_placeholder(texted.blocks, "kh_thuc_hien", image)
    IN  persist(texted, r.blocks, r.replaced)

\* a generator that edits the template where it lies instead of a copy
GenerateTemplate15InPlace ==
    /\ gen_pc \in {"idle", "done"}
    /\ master_data.exists
    /\ templates[Template15Name].exists
    /\ \E image \in ImageOutcomes :
          /\ templates' = [templates EXCEPT ![Template15Name] = template_15_output(image)]
          /\ docx_dir' = [docx_dir EXCEPT ![Template15Name] = template_15_output(image)]
    /\ UNCHANGED <<master_data, formatted_files, formatting_summary,
                   generation_summary>>
    /\ UNCHANGED <<scalar_vars, scale_vars, format_vars, unit_vars, gen_vars>>

\* generate_template_15 once master data and template are there: the
\* template is copied into the batch docx directory and the copy is edited
GenerateTemplate15 ==
    /\ gen_pc \in {"idle", "done"}
    /\ master_data.exists
    /\ templates[Template15Name].exists
    /\ \E image \in ImageOutcomes :
          docx_dir' = [docx_dir EXCEPT ![Template15Name] = template_15_output(image)]
    /\ UNCHANGED <<templates, master_data, formatted_files, formatting_summary,
                   generation_summary>>
    /\ UNCHANGED <<scalar_vars, scale_vars, format_vars, unit_vars, gen_vars>>

\* the templates of the batch
Templates ==
    [n \in DocNames |->
        IF n = documents_to_generate[1]
        THEN File(<<Block("p", <<Run(<<"x">>, PlainFormat),
                                 Run(placeholder_tag("chu_dau_tu"), BoldFormat)>>, "left"),
                    Block("p", <<Run(placeholder_tag("pham_vi_cung_cap"), PlainFormat)>>,
                          "left")>>)
        ELSE IF n = Template15Name
        THEN File(<<Block("p", <<Run(<<"x">>, PlainFormat),
                                 Run(placeholder_tag("chu_dau_tu"), BoldFormat),
                                 Run(<<"y">>, ItalicFormat)>>, "justify"),
                    Block("p", <<Run(placeholder_tag("kh_thuc_hien"), PlainFormat)>>,
                          "left")>>)
        ELSE NoFile]

\* a new batch: templates only (the second document's template may be
\* missing), no master data, nothing formatted or generated
Init ==
    /\ templates \in
          { [Templates EXCEPT ![documents_to_generate[2]] = t2] :
              t2 \in {NoFile, File(<<Block("p", <<Run(placeholder_tag("chu_dau_tu"),
                                                      PlainFormat)>>, "left")>>)} }
    /\ master_data = NoMasterData
    /\ formatted_files = [k \in Keys |-> NoFile]
    /\ formatting_summary = NoSummary
    /\ docx_dir = [n \in DocNames |-> NoFile]
    /\ generation_summary = NoGenerationSummary
    /\ GenIdle
    /\ paragraph = <<>> /\ content = <<>> /\ rebuilt = <<>> /\ sc_pc = "off"
    /\ ScaleOff
    /\ format_log = <<>>
    /\ UnitOff

Next ==
    \/ ExtractChuDauTu
    \/ ExtractPhamVi
    \/ FormatAllExtractedContent
    \/ GenerateTemplate15
    \/ GenerateAllStart
    \/ GenerateDocumentBegin
    \/ GenerateDocumentMissing
    \/ ReplaceNextPlaceholder
    \/ ReplaceNextPlaceholderRaises
    \/ FinishDocument
    \/ WriteGenerationSummary

Spec == Init /\ [][Next]_vars

----------------------------------------------------------------------------
(* SpecFormat: the formatters applied to the fragments a store may hold,
   followed by the generation of the documents *)

\* the pre-authored fragments of the templates directory
SourceFiles == {"21_BUOC.docx", "23_BUOC.docx"}

\* a pre-authored fragment: a paragraph naming it and a table whose first
\* cell holds a letter
source_document(source_file) ==
    <<Block("p", <<Run(<<source_file>>, PlainFormat)>>, "left"),
      Block("tbl", <<Run(<<"a">>, PlainFormat)>>, "center")>>

\* the copy format_conditional_table makes of a block: a paragraph justified,
\* the letter of a table's first cell written as "a)" in an italic run of the
\* system font
conditional_copy(block) ==
    IF block.kind = "p" THEN [block EXCEPT !.align = "justify"]
    ELSE [block EXCEPT !.runs =
             <<Run(<<"a)">>, [bold |-> "None", italic |-> TRUE, font |-> SystemFont])>>]

\* content_data.get("source_file", "21_BUOC.docx")
source_file_of(content_data) ==
    IF content_data.source_file = "" THEN "21_BUOC.docx" ELSE content_data.source_file

\* format_conditional_table: the fragment named by source_file copied, no
\* file when the templates directory has no such fragment
format_conditional_table(content_data) ==
    IF source_file_of(content_data) \notin SourceFiles THEN NoFile
    ELSE File([j \in 1..Len(source_document(source_file_of(content_data))) |->
                  conditional_copy(source_document(source_file_of(content_data))[j])])

\* what format_conditional_table prints
conditional_log(key, content_data) ==
    <<LogLine(key, "Formatting as conditional table")>>
    \o (IF source_file_of(content_data) \notin SourceFiles
        THEN <<LogLine(key, "Source template not found")>> ELSE <<>>)

\* ConditionalTableFormatter called on the dict payload of an entry
FormatConditionalTable ==
    /\ gen_pc = "idle"
    /\ master_data.exists
    /\ \E j \in 1..Len(master_data.placeholders) :
          LET placeholder_data == master_data.placeholders[j]
              formatted == format_conditional_table(placeholder_data.content)
          IN  /\ placeholder_data.content.form = "dict"
              /\ formatted_files' =
                    IF formatted.exists
                    THEN [formatted_files EXCEPT ![placeholder_data.key] = formatted]
                    ELSE formatted_files
              /\ format_log' = conditional_log(placeholder_data.key,
                                               placeholder_data.content)
    /\ UNCHANGED <<templates, master_data, formatting_summary, docx_dir,
                   generation_summary>>
    /\ UNCHANGED <<scalar_vars, scale_vars, gen_vars, unit_vars>>

\* step_count fields: absent, the two variants, another value
StepCountInputs == {0, 21, 22, 23}

\* source_file fields: absent, the two fragments, a file that does not exist
SourceFileInputs == {"", "21_BUOC.docx", "23_BUOC.docx", "22_BUOC.docx"}

PayloadInputs ==
    { StrContent(ExtractedValue), StrContent(<<>>), StrContent(<<"V", ControlChar>>),
      TableContent, HeaderOnlyTable, ListContent(<<>>), ListContent(<<"e">>),
      NoContent }
    \cup { ConditionalContent(n, f) : n \in StepCountInputs, f \in SourceFileInputs }

TypeInputs == {"simple_text", "table", "structured_content", "unknown"}

\* the fragments drawn for a key: every type with every payload, a
\* simple_text fragment with a string
FragmentInputs ==
    { fragment \in [type : TypeInputs, content : PayloadInputs] :
        fragment.type = "simple_text" => fragment.content.form = "str" }

\* the entry an extractor of the key writes on success
usual_entry(key) ==
    IF key = "chu_dau_tu"
    THEN Entry(key, "simple_text", StrContent(ExtractedValue))
    ELSE Entry(key, "table", TableContent)

\* a store in which one key holds a drawn fragment, logged as success or
\* failed, and the other key is absent or holds its usual entry
StoreInputs ==
    { [exists |-> TRUE,
       placeholders |->
          IF other THEN IF key = "chu_dau_tu"
                        THEN <<Entry(key, fragment.type, fragment.content),
                               usual_entry("pham_vi_cung_cap")>>
                        ELSE <<usual_entry("chu_dau_tu"),
                               Entry(key, fragment.type, fragment.content)>>
          ELSE <<Entry(key, fragment.type, fragment.content)>>,
       extraction_log |->
          [k \in Keys |-> IF k = key THEN status
                          ELSE IF other THEN "success" ELSE "absent"]] :
        key \in Keys, fragment \in FragmentInputs,
        status \in {"success", "failed"}, other \in BOOLEAN }

InitFormat ==
    /\ templates \in
          { [Templates EXCEPT ![documents_to_generate[2]] = t2] :
              t2 \in {NoFile, File(<<Block("p", <<Run(placeholder_tag("chu_dau_tu"),
                                                      PlainFormat)>>, "left")>>)} }
    /\ master_data \in StoreInputs
    /\ formatted_files = [k \in Keys |-> NoFile]
    /\ formatting_summary = NoSummary
    /\ docx_dir = [n \in DocNames |-> NoFile]
    /\ generation_summary = NoGenerationSummary
    /\ GenIdle
    /\ paragraph = <<>> /\ content = <<>> /\ rebuilt = <<>> /\ sc_pc = "off"
    /\ ScaleOff
    /\ format_log = <<>>
    /\ UnitOff

NextFormat ==
    \/ FormatAllExtractedContent
    \/ FormatConditionalTable
    \/ GenerateAllStart
    \/ GenerateDocumentBegin
    \/ GenerateDocumentMissing
    \/ ReplaceNextPlaceholder
    \/ ReplaceNextPlaceholderRaises
    \/ FinishDocument
    \/ WriteGenerationSummary

SpecFormat == InitFormat /\ [][NextFormat]_vars

----------------------------------------------------------------------------
(* SpecScale: the target total parsed from the completion-time text and the
   baseline schedule scaled to it (the chart generators) *)

\* the longest completion-time text drawn as an input
MaxTimeLen == 3

\* `return 120  # Default fallback`
DefaultDays == 120

DigitChars == <<"0", "1", "2", "3", "4", "5", "6", "7", "8", "9">>

\* a character matched by \d
is_digit(c) == \E i \in 1..Len(DigitChars) : DigitChars[i] = c

DigitValue(c) == (CHOOSE i \in 1..Len(DigitChars) : DigitChars[i] = c) - 1

RECURSIVE findall_scan(_, _, _, _)
\* re.findall(r'\d+', time_str), left to right: numbers are the maximal runs
\* of digits found before position i, current the run being read
findall_scan(text, i, numbers, current) ==
    IF i > Len(text)
    THEN IF current /= <<>> THEN Append(numbers, current) ELSE numbers
    ELSE IF is_digit(text[i])
    THEN findall_scan(text, i + 1, numbers, Append(current, text[i]))
    ELSE findall_scan(text, i + 1,
                      IF current /= <<>> THEN Append(numbers, current) ELSE numbers,
                      <<>>)

findall_digits(text) == findall_scan(text, 1, <<>>, <<>>)

RECURSIVE int(_)
\* int("...") of a string of digits
int(digits) ==
    IF digits = <<>> THEN 0
    ELSE 10 * int(SubSeq(digits, 1, Len(digits) - 1)) + DigitValue(digits[Len(digits)])

\* the last number of the text instead of the first
extract_days_from_time_last(text) ==
    LET numbers == findall_digits(text)
    IN  IF numbers /= <<>> THEN int(numbers[Len(numbers)]) ELSE DefaultDays

\* extract_days_from_time
extract_days_from_time(text) ==
    LET numbers == findall_digits(text)
    IN  IF numbers /= <<>> THEN int(numbers[1]) ELSE DefaultDays

\* the 21-step baseline, in days
TimelineBase21 ==
    <<1, 1, 1, 1, 20, 30, 3, 1, 1, 1, 15, 1, 7, 2, 3, 3, 1, 1, 5, 1, 1>>

\* the 23-step baseline in half days (its first weight is 0.5 day)
TimelineBase23 ==
    <<1, 2, 2, 2, 40, 60, 4, 2, 2, 2, 30, 2, 12, 2, 4, 4, 2, 2, 10, 2, 8, 2, 2>>

\* `if step_count == 21: ... else:  # 23 steps`, every weight in half days
timeline_base(steps) ==
    IF steps = 21 THEN [i \in 1..Len(TimelineBase21) |-> 2 * TimelineBase21[i]]
    ELSE TimelineBase23

\* determine_source_file: the fragment of the step table for a step count
determine_source_file(steps) ==
    IF steps = 21 THEN "21_BUOC.docx"
    ELSE IF steps = 23 THEN "23_BUOC.docx"
    ELSE "21_BUOC.docx"

RECURSIVE SumSeq(_)
SumSeq(w) == IF w = <<>> THEN 0 ELSE Head(w) + SumSeq(Tail(w))

\* the number of steps taken for the total
base_total_steps(w) == 2 * Len(w)

\* base_total = sum(timeline_base)
base_total(w) == SumSeq(w)

\* weight * target / total lies exactly between two integers: the float
\* product x * scaling_ratio then falls on either side of the half
is_tie(weight, target, total) == 2 * ((weight * target) % total) = total

\* round(x * scaling_ratio): the nearest integer; up tells, for a weight
\* whose product is a tie, which neighbour the float product rounds to
round_scaled(weight, target, total, up) ==
    LET q == (weight * target) \div total
        r == (weight * target) % total
    IN  IF 2 * r < total THEN q
        ELSE IF 2 * r > total THEN q + 1
        ELSE IF up[weight] THEN q + 1 ELSE q

\* no floor
no_clamp(x) == x

\* a floor of 0
clamp_zero(x) == Max(0, x)

\* max(1, round(...))
clamp(x) == Max(1, x)

\* [max(1, round(x * scaling_ratio)) for x in timeline_base]
scale_timeline(w, target, up) ==
    [i \in 1..Len(w) |-> clamp(round_scaled(w[i], target, base_total(w), up))]

\* the weights whose product with the ratio is a tie
tie_weights(w, target) ==
    { w[i] : i \in { j \in 1..Len(w) : is_tie(w[j], target, base_total(w)) } }

TimeChars == {"0", "1", "5", " ", "n"}

\* the text used when the fragment is missing: "120 ngày"
DefaultTimeText == <<"1", "2", "0", " ", "n", "g", "à", "y">>

\* the texts of at most MaxTimeLen characters, the default text and the
\* not-found text
InitScale ==
    /\ \/ \E n \in 0..MaxTimeLen : time_str \in [1..n -> TimeChars]
       \/ time_str \in {DefaultTimeText, NotFoundText}
    /\ step_count \in {21, 22, 23}
    /\ target_days = 0
    /\ scaled_timeline = <<>>
    /\ scale_pc = "text"
    /\ paragraph = <<>> /\ content = <<>> /\ rebuilt = <<>> /\ sc_pc = "off"
    /\ FilesEmpty
    /\ GenIdle
    /\ format_log = <<>>
    /\ UnitOff

\* target_days = self.extract_days_from_time(time_content)
ExtractDaysFromTime ==
    /\ scale_pc = "text"
    /\ target_days' = extract_days_from_time(time_str)
    /\ scale_pc' = "target"
    /\ UNCHANGED <<time_str, step_count, scaled_timeline>>
    /\ UNCHANGED <<scalar_vars, file_vars, gen_vars, format_vars, unit_vars>>

\* the scaling of generate_timeline_chart_directly and
\* generate_personnel_chart_directly
ScaleTimeline ==
    /\ scale_pc = "target"
    /\ \E up \in [tie_weights(timeline_base(step_count), target_days) -> BOOLEAN] :
          scaled_timeline' = scale_timeline(timeline_base(step_count), target_days, up)
    /\ scale_pc' = "scaled"
    /\ UNCHANGED <<time_str, step_count, target_days>>
    /\ UNCHANGED <<scalar_vars, file_vars, gen_vars, format_vars, unit_vars>>

NextScale == ExtractDaysFromTime \/ ScaleTimeline

SpecScale == InitScale /\ [][NextScale]_vars

----------------------------------------------------------------------------
(* Column widths of format_table (SpecTable) *)

\* most columns of a drawn table
MaxCols == 4

\* longest cell text of a drawn table
MaxCellLen == 2

\* `total_width = 7.0`, in tenths of an inch
total_width == 70

\* `min_width = 0.6`, in tenths of an inch
min_width == 6

\* `max_width = 2.0`, in tenths of an inch
max_width == 20

Min(a, b) == IF a <= b THEN a ELSE b

\* max_lengths: per column the longest of the header and of the cells the
\* rows hold in that column (`range(min(len(row), len(headers)))`)
max_lengths(hs, rs) ==
    [i \in 1..Len(hs) |->
        LET cells == { rs[r][i] : r \in { q \in 1..Len(rs) : i <= Len(rs[q]) } }
        IN  CHOOSE m \in cells \cup {hs[i]} : \A c \in cells \cup {hs[i]} : c <= m]

\* `total_chars = sum(max_lengths) if sum(max_lengths) > 0 else len(headers)`
total_chars(hs, rs) ==
    IF SumSeq(max_lengths(hs, rs)) > 0 THEN SumSeq(max_lengths(hs, rs)) ELSE Len(hs)

\* the widths of the columns, each a multiple of 1 / (10 * total_chars) inch:
\* `width = (length / total_chars) * total_width` is 70 * length of these
\* units, `max(min_width, min(width, max_width))` keeps it between
\* 6 * total_chars and 20 * total_chars; nothing is done with the remainder
calculate_column_widths(hs, rs) ==
    LET total == total_chars(hs, rs)
    IN  [i \in 1..Len(hs) |->
            Max(min_width * total,
                Min(total_width * max_lengths(hs, rs)[i], max_width * total))]

\* a table payload with headers and one data row, which may be shorter than
\* the headers
InitTable ==
    /\ \E n \in 1..MaxCols :
          /\ headers \in [1..n -> 0..MaxCellLen]
          /\ \E m \in 0..n : rows \in { <<row>> : row \in [1..m -> 0..MaxCellLen] }
    /\ column_widths = <<>>
    /\ table_pc = "input"
    /\ paragraph = <<>> /\ content = <<>> /\ rebuilt = <<>> /\ sc_pc = "off"
    /\ FilesEmpty
    /\ GenIdle
    /\ ScaleOff
    /\ format_log = <<>>
    /\ CellOff /\ MdOff /\ RaceOff

\* format_table up to `column_widths.append(width)`
CalculateColumnWidths ==
    /\ table_pc = "input"
    /\ headers # <<>> /\ rows # <<>>
    /\ column_widths' = calculate_column_widths(headers, rows)
    /\ table_pc' = "done"
    /\ UNCHANGED <<headers, rows>>
    /\ UNCHANGED <<scalar_vars, file_vars, gen_vars, scale_vars, format_vars,
                   cell_vars, md_vars, race_vars>>

NextTable == CalculateColumnWidths

SpecTable == InitTable /\ [][NextTable]_vars

----------------------------------------------------------------------------
(* Cosmetic post-pass of format_conditional_table (SpecCell) *)

\* longest text of a drawn first-column cell
MaxTextLen == 3

\* the characters cell texts are drawn from: letters, the parenthesis, a
\* digit and a blank
Letters == {"a", "B"}

CellChars == Letters \cup {")", "1", " "}

\* a table cell: its text, the alignment of its paragraph and whether its
\* run is italic
Cell(text, align, italic) == [text |-> text, align |-> align, italic |-> italic]

RECURSIVE lstrip(_)
lstrip(text) ==
    IF text # <<>> /\ Head(text) = " " THEN lstrip(Tail(text)) ELSE text

RECURSIVE rstrip(_)
rstrip(text) ==
    IF text # <<>> /\ text[Len(text)] = " "
    THEN rstrip(SubSeq(text, 1, Len(text) - 1)) ELSE text

\* str.strip()
strip(text) == rstrip(lstrip(text))

\* str.isalpha(): at least one character and every character a letter
isalpha(text) == text # <<>> /\ \A i \in 1..Len(text) : text[i] \in Letters

\* `cell_text.replace(')', '')`
without_paren(text) == SelectSeq(text, LAMBDA c : c # ")")

has_paren(text) == \E i \in 1..Len(text) : text[i] = ")"

\* the first `if` of the pass: a lone letter gets its parenthesis
\* (`first_cell.text = ...` leaves one plain run in a fresh paragraph)
add_paren(cell) ==
    LET cell_text == strip(cell.text)
    IN  IF Len(cell_text) = 1 /\ isalpha(cell_text) /\ ~has_paren(cell_text)
        THEN Cell(cell_text \o <<")">>, "left", FALSE)
        ELSE cell

\* the second `if` of the pass, on the text read before the first: the cell
\* is emptied and rebuilt centered with one italic run
style_letter(cell, fixed) ==
    LET cell_text == strip(cell.text)
    IN  IF Len(cell_text) <= 3 /\ isalpha(without_paren(cell_text))
        THEN Cell(IF has_paren(cell_text) THEN cell_text ELSE cell_text \o <<")">>,
                  "center", TRUE)
        ELSE fixed

\* the two steps on `first_cell = row.cells[0]`
fix_first_cell(cell) == style_letter(cell, add_paren(cell))

\* the pass on one row: only the first cell is looked at
fix_row(cells) == [cells EXCEPT ![1] = fix_first_cell(cells[1])]

\* a row of two cells copied from the source fragment
InitCell ==
    /\ \E n \in 0..MaxTextLen : \E first \in [1..n -> CellChars] :
          \E second \in {<<"a">>, <<"1">>} :
              row_cells = <<Cell(first, "left", FALSE), Cell(second, "left", FALSE)>>
    /\ fixed_cells = <<>>
    /\ cell_pc = "input"
    /\ paragraph = <<>> /\ content = <<>> /\ rebuilt = <<>> /\ sc_pc = "off"
    /\ FilesEmpty
    /\ GenIdle
    /\ ScaleOff
    /\ format_log = <<>>
    /\ TableOff /\ MdOff /\ RaceOff

\* the loop body of the pass for one row
FixFirstColumn ==
    /\ cell_pc = "input"
    /\ fixed_cells' = fix_row(row_cells)
    /\ cell_pc' = "done"
    /\ UNCHANGED row_cells
    /\ UNCHANGED <<scalar_vars, file_vars, gen_vars, scale_vars, format_vars,
                   table_vars, md_vars, race_vars>>

NextCell == FixFirstColumn

SpecCell == InitCell /\ [][NextCell]_vars

----------------------------------------------------------------------------
(* Markdown of a structured fragment (SpecMarkdown) *)

\* most lines of a drawn markdown text
MaxLines == 3

\* `line.startswith(prefix)`
startswith(line, prefix) ==
    Len(line) >= Len(prefix) /\ SubSeq(line, 1, Len(prefix)) = prefix

\* `line.endswith(suffix)`
endswith(line, suffix) ==
    Len(line) >= Len(suffix)
    /\ SubSeq(line, Len(line) - Len(suffix) + 1, Len(line)) = suffix

\* an element of structured_content; "items" is used by headings only
Element(type, text, items) == [type |-> type, text |-> text, items |-> items]

RECURSIVE parse_lines(_, _, _)
\* the loop of parse_markdown_to_structured_data: current_section is the
\* position of the last heading in structured_content, 0 for None; it is set
\* by a heading and by nothing else
parse_lines(lines, structured_content, current_section) ==
    IF lines = <<>> THEN structured_content
    ELSE LET line == strip(Head(lines))
         IN  IF line = <<>>
             THEN parse_lines(Tail(lines), structured_content, current_section)
             ELSE IF startswith(line, <<"*", "*">>) /\ endswith(line, <<"*", "*">>)
             THEN parse_lines(Tail(lines),
                              Append(structured_content,
                                     Element("heading", SubSeq(line, 3, Len(line) - 2),
                                             <<>>)),
                              Len(structured_content) + 1)
             ELSE IF startswith(line, <<"-", " ">>)
             THEN LET bullet_text == strip(SubSeq(line, 3, Len(line)))
                  IN  IF current_section # 0
                      THEN parse_lines(Tail(lines),
                                       [structured_content EXCEPT
                                           ![current_section].items = Append(@, bullet_text)],
                                       current_section)
                      ELSE parse_lines(Tail(lines),
                                       Append(structured_content,
                                              Element("bullet_item", bullet_text, <<>>)),
                                       current_section)
             ELSE parse_lines(Tail(lines),
                              Append(structured_content, Element("paragraph", line, <<>>)),
                              current_section)

parse_markdown_to_structured_data(markdown_content) ==
    parse_lines(markdown_content, <<>>, 0)

\* the lines format_structured_content writes for one element: a heading
\* line followed by the bullets of the heading, a bullet line, or the text
element_lines(element) ==
    IF element.type = "heading"
    THEN <<(<<"*", "*">> \o element.text \o <<"*", "*">>)>>
         \o [j \in 1..Len(element.items) |-> <<"-", " ">> \o element.items[j]]
    ELSE IF element.type = "bullet_item"
    THEN <<(<<"-", " ">> \o element.text)>>
    ELSE <<element.text>>

\* markdown_lines
markdown_lines(structured_data) ==
    Concat([j \in 1..Len(structured_data) |-> element_lines(structured_data[j])])

\* the paragraph written for one line of the regenerated markdown: a bold
\* paragraph for `^\*\*(.+)\*\*$`, else the line (a bullet keeps its dash)
line_paragraph(line) ==
    IF startswith(line, <<"*", "*">>) /\ endswith(line, <<"*", "*">>) /\ Len(line) >= 5
    THEN [text |-> SubSeq(line, 3, Len(line) - 2), bold |-> TRUE]
    ELSE IF startswith(line, <<"-", " ">>)
    THEN [text |-> <<"-", " ">> \o strip(SubSeq(line, 3, Len(line))), bold |-> FALSE]
    ELSE [text |-> line, bold |-> FALSE]

\* the paragraphs of the document format_structured_content saves
structured_paragraphs(structured_data) ==
    LET lines == SelectSeq([j \in 1..Len(markdown_lines(structured_data)) |->
                               strip(markdown_lines(structured_data)[j])],
                           LAMBDA l : l # <<>>)
    IN  [j \in 1..Len(lines) |-> line_paragraph(lines[j])]

\* the lines markdown texts are drawn from: headings, bullets, paragraphs
HeadingLine(text) == <<"*", "*">> \o text \o <<"*", "*">>

BulletLine(text) == <<"-", " ">> \o text

LineInputs ==
    { HeadingLine(<<"h">>), HeadingLine(<<"g">>), BulletLine(<<"b">>),
      BulletLine(<<"c">>), <<"p">>, <<"q">> }

InitMarkdown ==
    /\ \E n \in 1..MaxLines : markdown \in [1..n -> LineInputs]
    /\ parsed = <<>>
    /\ emitted = <<>>
    /\ md_pc = "input"
    /\ paragraph = <<>> /\ content = <<>> /\ rebuilt = <<>> /\ sc_pc = "off"
    /\ FilesEmpty
    /\ GenIdle
    /\ ScaleOff
    /\ format_log = <<>>
    /\ TableOff /\ CellOff /\ RaceOff

\* the extractor parses the markdown of the language model
ParseMarkdown ==
    /\ md_pc = "input"
    /\ parsed' = parse_markdown_to_structured_data(markdown)
    /\ md_pc' = "parsed"
    /\ UNCHANGED <<markdown, emitted>>
    /\ UNCHANGED <<scalar_vars, file_vars, gen_vars, scale_vars, format_vars,
                   table_vars, cell_vars, race_vars>>

\* the formatter writes the structured content
FormatStructuredContent ==
    /\ md_pc = "parsed"
    /\ parsed # <<>>
    /\ emitted' = structured_paragraphs(parsed)
    /\ md_pc' = "formatted"
    /\ UNCHANGED <<markdown, parsed>>
    /\ UNCHANGED <<scalar_vars, file_vars, gen_vars, scale_vars, format_vars,
                   table_vars, cell_vars, race_vars>>

NextMarkdown == ParseMarkdown \/ FormatStructuredContent

SpecMarkdown == InitMarkdown /\ [][NextMarkdown]_vars

----------------------------------------------------------------------------
(* Two extractor invocations on the store of one batch (SpecRace): each
   reads master_data.json, works on its copy and writes the whole file back;
   nothing locks the file between the read and the write *)

\* the invocations, named by the key they extract
Invocations == Keys

\* what an invocation ends with: a failure before anything is extracted, or
\* the entry it saves with its log status
Outcome(kind, type, payload, status) ==
    [kind |-> kind, type |-> type, payload |-> payload, status |-> status]

extraction_outcomes(key) ==
    IF key = "chu_dau_tu"
    THEN { Outcome("failure", "simple_text", NoContent, "failed"),
           Outcome("saved", "simple_text", StrContent(ExtractedValue), "success"),
           Outcome("saved", "simple_text", StrContent(NotFoundText), "failed") }
    ELSE { Outcome("failure", "table", NoContent, "failed"),
           Outcome("saved", "table", TableContent, "success"),
           Outcome("saved", "table", HeaderOnlyTable, "success") }

\* the file an invocation writes with json.dump: the store it read, with its
\* own key set
written_store(local, key, outcome) ==
    IF outcome.kind = "failure"
    THEN save_extraction_failure(local, key)
    ELSE save_to_master_data(local, key, outcome.type, outcome.payload, outcome.status)

\* a new batch: no store yet, both invocations about to start
InitRace ==
    /\ loaded = [i \in Invocations |-> NoMasterData]
    /\ race_pc = [i \in Invocations |-> "idle"]
    /\ last_writer = "none"
    /\ paragraph = <<>> /\ content = <<>> /\ rebuilt = <<>> /\ sc_pc = "off"
    /\ FilesEmpty
    /\ GenIdle
    /\ ScaleOff
    /\ format_log = <<>>
    /\ TableOff /\ CellOff /\ MdOff

\* `if master_file.exists(): master_data = json.load(f) else: {...}`, by an
\* invocation that starts (again)
LoadStore(i) ==
    /\ race_pc[i] \in {"idle", "written"}
    /\ loaded' = [loaded EXCEPT ![i] = load_or_new(master_data)]
    /\ race_pc' = [race_pc EXCEPT ![i] = "loaded"]
    /\ UNCHANGED <<last_writer, file_vars>>
    /\ UNCHANGED <<scalar_vars, gen_vars, scale_vars, format_vars,
                   table_vars, cell_vars, md_vars>>

\* a write that reads the file again under a lock before it sets its key
WriteStoreLocked(i) ==
    /\ race_pc[i] = "loaded"
    /\ \E outcome \in extraction_outcomes(i) :
          master_data' = written_store(master_data, i, outcome)
    /\ race_pc' = [race_pc EXCEPT ![i] = "written"]
    /\ last_writer' = i
    /\ UNCHANGED <<loaded, templates, formatted_files, formatting_summary, docx_dir,
                   generation_summary>>
    /\ UNCHANGED <<scalar_vars, gen_vars, scale_vars, format_vars,
                   table_vars, cell_vars, md_vars>>

\* `with open(master_file, 'w') as f: json.dump(master_data, f)`: the copy
\* read earlier, with the key of the invocation set, replaces the file
WriteStore(i) ==
    /\ race_pc[i] = "loaded"
    /\ \E outcome \in extraction_outcomes(i) :
          master_data' = written_store(loaded[i], i, outcome)
    /\ race_pc' = [race_pc EXCEPT ![i] = "written"]
    /\ last_writer' = i
    /\ UNCHANGED <<loaded, templates, formatted_files, formatting_summary, docx_dir,
                   generation_summary>>
    /\ UNCHANGED <<scalar_vars, gen_vars, scale_vars, format_vars,
                   table_vars, cell_vars, md_vars>>

NextRace ==
    \/ \E i \in Invocations : LoadStore(i)
    \/ \E i \in Invocations : WriteStore(i)

SpecRace == InitRace /\ [][NextRace]_vars

----------------------------------------------------------------------------
(* Properties of scalar substitution (SpecScalar) *)

\* the bold (effective), italic and font state of every character
char_state(runs) ==
    Concat([j \in 1..Len(runs) |->
              [c \in 1..Len(runs[j].text) |->
                  [bold |-> run_bold(runs[j]), italic |-> runs[j].italic,
                   font |-> runs[j].font]]])

ScalarTag == placeholder_tag(ScalarKey)

\* 0-based offset of the token's first character in the original paragraph
TokenStart == find(paragraph_text(paragraph), ScalarTag)

\* 1-based positions of the original characters outside the token span
OutsidePositions ==
    { i \in 1..Len(paragraph_text(paragraph)) :
        i <= TokenStart \/ i > TokenStart + Len(ScalarTag) }

\* where an original character outside the token lands in the rebuilt text
Landing(i) == IF i <= TokenStart THEN i ELSE i - Len(ScalarTag) + Len(content)

\* the runs that hold a character of the token
TokenRuns ==
    LET bounds == [j \in 1..Len(paragraph) |->
                     Len(paragraph_text(SubSeq(paragraph, 1, j)))]
    IN  { j \in 1..Len(paragraph) :
            /\ bounds[j] > TokenStart
            /\ bounds[j] - Len(paragraph[j].text) < TokenStart + Len(ScalarTag) }

RunFormatOf(r) == [bold |-> r.bold, italic |-> r.italic, font |-> r.font]

\* the token spans three adjacent runs with three different formatting states
TokenSpansThreeStyles ==
    /\ Cardinality(TokenRuns) = 3
    /\ \A j, k \in TokenRuns :
          j /= k => RunFormatOf(paragraph[j]) /= RunFormatOf(paragraph[k])

\* C2 as stated: when the token spans three differently formatted runs, every
\* character outside the token keeps its bold, italic and font state.
C2_OutsideKeepsBoldItalicFont ==
    (sc_pc = "done" /\ TokenSpansThreeStyles) =>
        \A i \in OutsidePositions :
            char_state(rebuilt)[Landing(i)] = char_state(paragraph)[i]

\* C2 amended: when the token spans three differently formatted runs, every
\* character outside the token keeps its effective bold state (an unset bold
\* counts as not bold), for every split of the text into runs; its font is
\* reset to the system font.
C2_OutsideKeepsBold ==
    (sc_pc = "done" /\ TokenSpansThreeStyles) =>
        \A i \in OutsidePositions :
            /\ char_state(rebuilt)[Landing(i)].bold = char_state(paragraph)[i].bold
            /\ char_state(rebuilt)[Landing(i)].font = SystemFont

\* C2 witness: a substituted paragraph whose token spanned three differently
\* formatted runs, with text on both sides of the token in two bold states
C2_Witness ==
    /\ sc_pc = "done"
    /\ TokenSpansThreeStyles
    /\ \E i, j \in OutsidePositions :
          /\ i <= TokenStart /\ j > TokenStart
          /\ char_state(paragraph)[i].bold /= char_state(paragraph)[j].bold

\* 1-based positions of the inserted content in the rebuilt text
InsertedPositions == (TokenStart + 1)..(TokenStart + Len(content))

\* C3 as stated: the inserted text carries the bold, italic and font state in
\* effect at the token's first character in the original paragraph.
C3_ReplacementInheritsBoldItalicFont ==
    sc_pc = "done" =>
        \A i \in InsertedPositions :
            char_state(rebuilt)[i] = char_state(paragraph)[TokenStart + 1]

\* C3 amended: the inserted text carries the effective bold state in effect at
\* the token's first character in the original paragraph (not a default), also
\* when the token starts in one run and ends in another; its font is the
\* system font.
C3_ReplacementInheritsBold ==
    sc_pc = "done" =>
        \A i \in InsertedPositions :
            /\ char_state(rebuilt)[i].bold = char_state(paragraph)[TokenStart + 1].bold
            /\ char_state(rebuilt)[i].font = SystemFont

\* C3 witness: content inserted for a token that starts in a bold run and ends
\* in a run that is not bold
C3_Witness ==
    /\ sc_pc = "done"
    /\ content /= <<>>
    /\ Cardinality(TokenRuns) >= 2
    /\ char_state(paragraph)[TokenStart + 1].bold = "True"
    /\ char_state(paragraph)[TokenStart + Len(ScalarTag)].bold = "False"
    /\ char_state(rebuilt)[TokenStart + 1].bold = "True"

\* the number of occurrences of the token in a text
Occurrences(text, tag) ==
    Cardinality({ i \in 0..(Len(text) - Len(tag)) : Slice(text, i, i + Len(tag)) = tag })

\* C4: only the first occurrence is replaced: the rebuilt text is the text
\* before the first token, the content, and the text after the first token;
\* a second token of the paragraph is still there literally.
C4_FirstOccurrenceOnly ==
    sc_pc = "done" =>
        LET old == paragraph_text(paragraph)
            new == paragraph_text(rebuilt)
            rest == Slice(old, TokenStart + Len(ScalarTag), Len(old))
        IN  /\ new = Slice(old, 0, TokenStart) \o content \o rest
            /\ Occurrences(old, ScalarTag) >= 2 =>
                 contains(Slice(new, TokenStart + Len(content), Len(new)), ScalarTag)

\* C4 witness: a substituted paragraph that held the token twice
C4_Witness ==
    /\ sc_pc = "done"
    /\ Occurrences(paragraph_text(paragraph), ScalarTag) = 2
    /\ Occurrences(paragraph_text(rebuilt), ScalarTag) = 1

----------------------------------------------------------------------------
(* Properties of the substitution engine and of generate_document (SpecGen) *)

\* the key the loop of generate_document is about to process
CurrentKey == placeholders_to_replace[key_idx]

\* the key the loop of generate_document processed last
LastKey == placeholders_to_replace[key_idx - 1]

\* a step that is one iteration of the loop returning from
\* replace_placeholder_hybrid
KeyProcessed == gen_pc = "keys" /\ key_idx' = key_idx + 1

\* the working document before and after a step
OldBlocks == docx_dir[output_name].blocks

NewBlocks == docx_dir'[output_name].blocks

HoldsTag(block, tag) ==
    block.kind = "p" /\ contains(paragraph_text(block.runs), tag)

\* position of the first body paragraph, in document order, holding the tag
FirstHolder(blocks, tag) ==
    IF \E i \in 1..Len(blocks) : HoldsTag(blocks[i], tag)
    THEN CHOOSE i \in 1..Len(blocks) :
            /\ HoldsTag(blocks[i], tag)
            /\ \A j \in 1..(i - 1) : ~HoldsTag(blocks[j], tag)
    ELSE 0

TypeOf(key) ==
    IF dict_has(master_data.placeholders, key)
    THEN dict_get(master_data.placeholders, key).type ELSE "absent"

IsStructural(key) == TypeOf(key) \in {"structured_content", "table"}

\* C5 as stated: after a successful substitution of a key no body paragraph
\* of the working document still holds the key's token.
C5_EveryOccurrenceReplaced ==
    (gen_pc = "keys" /\ key_idx > 1 /\ success) =>
        \A i \in 1..Len(OldBlocks) : ~HoldsTag(OldBlocks[i], placeholder_tag(LastKey))

\* C5 amended: a successful substitution of a key changes only the first body
\* paragraph, in document order, that held the key's token; every block before
\* it and every block after it (later paragraphs holding the token included)
\* is unchanged and keeps its place.
C5_OnlyFirstHolderReplaced ==
    [][ (KeyProcessed /\ success') =>
          LET i == FirstHolder(OldBlocks, placeholder_tag(CurrentKey))
              shift == Len(NewBlocks) - Len(OldBlocks)
          IN  /\ i > 0
              /\ NewBlocks /= OldBlocks
              /\ \A j \in 1..(i - 1) : NewBlocks[j] = OldBlocks[j]
              /\ \A j \in (i + 1)..Len(OldBlocks) : NewBlocks[j + shift] = OldBlocks[j]
      ]_vars

\* C5 witness: a key was substituted and a later body paragraph still holds
\* its token
C5_Witness ==
    /\ gen_pc = "keys" /\ key_idx > 1 /\ success
    /\ \E i \in 1..Len(OldBlocks) : HoldsTag(OldBlocks[i], placeholder_tag(LastKey))

RunTexts(block) == [j \in 1..Len(block.runs) |-> block.runs[j].text]

\* block is a copy of the artifact element src: same kind, same run texts
CopyOf(block, src) == block.kind = src.kind /\ RunTexts(block) = RunTexts(src)

\* C6: a structural substitution removes the first body paragraph holding the
\* token and puts the artifact's elements (paragraphs and tables) at its
\* position in the artifact's order; every other block keeps its content and
\* its relative order.
C6_StructuralReplacesFirstHolder ==
    [][ (KeyProcessed /\ success' /\ IsStructural(CurrentKey)) =>
          LET i   == FirstHolder(OldBlocks, placeholder_tag(CurrentKey))
              src == formatted_files[CurrentKey].blocks
          IN  /\ i > 0
              /\ Len(NewBlocks) = Len(OldBlocks) - 1 + Len(src)
              /\ \A j \in 1..(i - 1) : NewBlocks[j] = OldBlocks[j]
              /\ \A j \in 1..Len(src) : CopyOf(NewBlocks[i - 1 + j], src[j])
              /\ \A j \in (i + 1)..Len(OldBlocks) :
                    NewBlocks[j - 1 + Len(src)] = OldBlocks[j]
      ]_vars

\* C6 witness: the artifact's paragraph and table sit, in that order, in a
\* working document next to another block of the template
C6_Witness ==
    /\ gen_pc = "keys" /\ key_idx > 1 /\ success /\ IsStructural(LastKey)
    /\ Len(OldBlocks) > Len(ArtifactBlocks)
    /\ \E i \in 1..(Len(OldBlocks) - 1) :
          /\ CopyOf(OldBlocks[i], ArtifactBlocks[1])
          /\ CopyOf(OldBlocks[i + 1], ArtifactBlocks[2])

RunStyles(block) ==
    [j \in 1..Len(block.runs) |->
        [bold |-> block.runs[j].bold, italic |-> block.runs[j].italic]]

\* the blocks of the working documents that were inserted from the artifact,
\* each with the artifact element it was copied from
Inserted ==
    UNION { { <<docx_dir[n].blocks[i], ArtifactBlocks[j]>> :
                i \in { i \in 1..Len(docx_dir[n].blocks) :
                          CopyOf(docx_dir[n].blocks[i], ArtifactBlocks[j]) } } :
            n \in DocNames, j \in 1..Len(ArtifactBlocks) }

\* C7 as stated: every run of every inserted block, table cells included, has
\* the system font, and bold, italic and alignment are as in the artifact.
C7_AllInsertedRunsSystemFont ==
    \A pair \in Inserted :
        /\ \A j \in 1..Len(pair[1].runs) : pair[1].runs[j].font = SystemFont
        /\ RunStyles(pair[1]) = RunStyles(pair[2])
        /\ pair[1].align = pair[2].align

\* C7 amended: every run of every inserted paragraph has the system font; the
\* runs inside the cells of an inserted table keep the font they have in the
\* artifact; the pass changes no run's bold or italic state and no
\* paragraph's alignment.
C7_InsertedParagraphRunsSystemFont ==
    \A pair \in Inserted :
        /\ pair[1].kind = "p" =>
              \A j \in 1..Len(pair[1].runs) : pair[1].runs[j].font = SystemFont
        /\ pair[1].kind = "tbl" => pair[1].runs = pair[2].runs
        /\ RunStyles(pair[1]) = RunStyles(pair[2])
        /\ pair[1].align = pair[2].align

\* C7 witness: a working document holds the inserted paragraph and the
\* inserted table of the artifact
C7_Witness ==
    \E n \in DocNames :
        \E i \in 1..Len(docx_dir[n].blocks) :
            /\ i < Len(docx_dir[n].blocks)
            /\ CopyOf(docx_dir[n].blocks[i], ArtifactBlocks[1])
            /\ CopyOf(docx_dir[n].blocks[i + 1], ArtifactBlocks[2])

\* the key is not in the store, or its token is in no body paragraph of the
\* working document, or its formatted artifact file is missing
NotApplicable(key) ==
    \/ ~dict_has(master_data.placeholders, key)
    \/ FirstHolder(OldBlocks, placeholder_tag(key)) = 0
    \/ IsStructural(key) /\ ~formatted_files[key].exists

\* C8: for such a key substitution returns False without raising, the working
\* file is left unchanged, and generate_document goes on to the next key.
C8_NotFoundIsNotApplied ==
    [][ (gen_pc = "keys" /\ key_idx <= Len(placeholders_to_replace)
         /\ NotApplicable(CurrentKey) /\ key_idx' /= key_idx) =>
          /\ success' = FALSE
          /\ docx_dir' = docx_dir
          /\ replaced_count' = replaced_count
          /\ gen_pc' = "keys"
          /\ key_idx' = key_idx + 1
      ]_vars

\* C8 witness: a key was not applied and the next key of the list was then
\* substituted into the same document
C8_Witness ==
    \E j \in 1..(Len(run_log) - 1) :
        /\ run_log[j].outcome = "failed"
        /\ run_log[j + 1].outcome = "replaced"
        /\ run_log[j + 1].doc = run_log[j].doc

\* the outcome generate_document logged for the step just taken
LastOutcome == run_log'[Len(run_log')].outcome

\* C9: the working copy is saved right after each successful substitution,
\* and a later key that is not applied or raises leaves the file on disk as
\* it was saved: no earlier substitution is rolled back.
C9_FailureKeepsEarlierSubstitutions ==
    [][ (gen_pc = "keys" /\ key_idx <= Len(placeholders_to_replace)) =>
          /\ LastOutcome = "replaced" =>
                /\ docx_dir'[output_name] /= docx_dir[output_name]
                /\ docx_dir'[output_name] =
                     File(replace_placeholder_hybrid(OldBlocks, CurrentKey, master_data,
                                                     formatted_files).blocks)
          /\ LastOutcome \in {"failed", "raised"} => docx_dir' = docx_dir
      ]_vars

\* C9 witness: a key fails or raises after an earlier key of the same document
\* was substituted, and the file on disk still differs from the template
C9_Witness ==
    /\ Len(run_log) >= 2
    /\ run_log[Len(run_log)].outcome \in {"failed", "raised"}
    /\ \E j \in 1..(Len(run_log) - 1) :
          /\ run_log[j].outcome = "replaced"
          /\ run_log[j].doc = run_log[Len(run_log)].doc
    /\ docx_dir[run_log[Len(run_log)].doc] /= templates[run_log[Len(run_log)].doc]

\* the number of keys whose substitution returned success for a document
Successes(doc) ==
    Cardinality({ j \in 1..Len(run_log) :
                    run_log[j].doc = doc /\ run_log[j].outcome = "replaced" })

EntryCountsRight(e) ==
    /\ e.total_placeholders = Len(placeholders_to_replace)
    /\ e.placeholders_replaced = Successes(e.file)
    /\ 0 <= e.placeholders_replaced
    /\ e.placeholders_replaced <= e.total_placeholders

\* C10: attempted is the length of the key list and substituted is the number
\* of keys whose substitution returned success; 0 <= substituted <= attempted
\* at every point of the loop and in the generation summary.
C10_SubstitutedAtMostAttempted ==
    /\ gen_pc = "keys" =>
          /\ replaced_count = Successes(output_name)
          /\ 0 <= replaced_count
          /\ replaced_count <= key_idx - 1
          /\ key_idx - 1 <= Len(placeholders_to_replace)
    /\ \A j \in 1..Len(generated_documents) : EntryCountsRight(generated_documents[j])
    /\ \A j \in 1..Len(generation_summary.generated_documents) :
          EntryCountsRight(generation_summary.generated_documents[j])

\* C10 witness: a generation summary with a document for which some but not
\* all keys were substituted
C10_Witness ==
    /\ generation_summary.exists
    /\ \E j \in 1..Len(generation_summary.generated_documents) :
          LET e == generation_summary.generated_documents[j]
          IN  0 < e.placeholders_replaced /\ e.placeholders_replaced < e.total_placeholders

----------------------------------------------------------------------------
(* Properties of the pipeline (Spec) *)

RECURSIVE count_in(_, _)
\* the number of occurrences of a token in a text
count_in(text, tag) ==
    IF ~contains(text, tag) THEN 0
    ELSE 1 + count_in(Slice(text, find(text, tag) + Len(tag), Len(text)), tag)

RECURSIVE TokenCount(_, _)
\* the number of literal tokens of a key in a document
TokenCount(blocks, key) ==
    IF blocks = <<>> THEN 0
    ELSE count_in(paragraph_text(Head(blocks).runs), placeholder_tag(key))
         + TokenCount(Tail(blocks), key)

\* what an output document is built from: the file on disk, or the template
\* when it has not been generated yet
BaseOf(n) == IF docx_dir[n].exists THEN docx_dir[n] ELSE templates[n]

\* C1: while the extraction status of a key is not success, no step of any
\* generator replaces a token of that key: every output document written by
\* the step holds at least the tokens of the key it held before (those of the
\* template when the document is new).
C1_FailedKeyNeverSubstituted ==
    [][ \A k \in Keys :
          master_data.extraction_log[k] /= "success" =>
             \A n \in DocNames :
                docx_dir'[n].exists =>
                   TokenCount(docx_dir'[n].blocks, k) >= TokenCount(BaseOf(n).blocks, k)
      ]_vars

----------------------------------------------------------------------------
(* Properties of the driver on an empty key list (SpecGen) *)

\* the blocks are those of the template but for the line spacing of the
\* final formatting pass
TemplateButSpacing(blocks, template_blocks) ==
    /\ Len(blocks) = Len(template_blocks)
    /\ \A j \in 1..Len(blocks) :
          /\ blocks[j] = [template_blocks[j] EXCEPT !.spacing = blocks[j].spacing]
          /\ blocks[j].spacing = "1.4"

EmptyKeyListRun ==
    /\ formatting_summary.exists
    /\ placeholders_to_replace = <<>>
    /\ master_data.exists

----------------------------------------------------------------------------
(* Properties of the scaling engine (SpecScale) *)

Abs(x) == IF x < 0 THEN 0 - x ELSE x

Baseline == timeline_base(step_count)

Scaled == scale_pc = "scaled"

\* C12: for a positive target every element of the scaled vector is an
\* integer >= 1; the vector has the length of the baseline and element i is
\* the scaled value of weight i (either the floor of 1 or an integer nearest
\* to weight * target / sum), so the order of the baseline is kept.
C12_ScaledElementsAtLeastOne ==
    (Scaled /\ target_days > 0) =>
        /\ Len(scaled_timeline) = Len(Baseline)
        /\ \A i \in 1..Len(Baseline) :
              /\ scaled_timeline[i] \in Nat
              /\ scaled_timeline[i] >= 1
              /\ \/ scaled_timeline[i] = 1
                 \/ 2 * Abs(scaled_timeline[i] * SumSeq(Baseline)
                            - Baseline[i] * target_days) <= SumSeq(Baseline)
        /\ \A i, j \in 1..Len(Baseline) :
              Baseline[i] <= Baseline[j] => scaled_timeline[i] <= scaled_timeline[j]

\* C12 witness: a positive target for which one weight scales below one half
\* (and is floored to 1) and another scales above 1
C12_Witness ==
    /\ Scaled /\ target_days > 0
    /\ \E i \in 1..Len(Baseline) :
          /\ 2 * Baseline[i] * target_days < SumSeq(Baseline)
          /\ scaled_timeline[i] = 1
    /\ \E i \in 1..Len(Baseline) : scaled_timeline[i] > 1

\* C13: for a positive target the sum of the scaled vector differs from the
\* target by at most the number of weights.
C13_SumWithinLenOfTarget ==
    (Scaled /\ target_days > 0) =>
        Abs(SumSeq(scaled_timeline) - target_days) <= Len(Baseline)

\* C13 witness: a positive target that the scaled vector does not sum to
C13_Witness ==
    /\ Scaled /\ target_days > 0
    /\ SumSeq(scaled_timeline) /= target_days
    /\ \E i \in 1..Len(Baseline) : scaled_timeline[i] > 1

\* C14: a target <= 0 is scaled like any other: the result is a non-empty
\* vector in which every element is 1.
C14_NonPositiveTargetGivesOnes ==
    (Scaled /\ target_days <= 0) =>
        /\ scaled_timeline /= <<>>
        /\ Len(scaled_timeline) = Len(Baseline)
        /\ \A i \in 1..Len(scaled_timeline) : scaled_timeline[i] = 1

\* C14 witness: the target 0, parsed from a text with a digit, was scaled
C14_Witness ==
    /\ Scaled /\ target_days = 0
    /\ \E i \in 1..Len(time_str) : is_digit(time_str[i])

\* positions lo..hi of the text are its first maximal run of digits
FirstDigitRun(text, lo, hi) ==
    /\ lo <= hi
    /\ \A k \in lo..hi : is_digit(text[k])
    /\ \A k \in 1..(lo - 1) : ~is_digit(text[k])
    /\ hi = Len(text) \/ ~is_digit(text[hi + 1])

RECURSIVE Pow10(_)
Pow10(n) == IF n = 0 THEN 1 ELSE 10 * Pow10(n - 1)

RECURSIVE PlaceValue(_, _, _)
\* the decimal value of the digits at positions lo..hi
PlaceValue(text, lo, hi) ==
    IF lo > hi THEN 0
    ELSE DigitValue(text[lo]) * Pow10(hi - lo) + PlaceValue(text, lo + 1, hi)

\* C15: the parsed target is the value of the first maximal run of decimal
\* digits of the text, and 120 when the text has no digit; parsing is defined
\* for every text (it is enabled whenever a text waits to be parsed).
C15_FirstNumberOrDefault ==
    /\ scale_pc = "text" => ENABLED ExtractDaysFromTime
    /\ scale_pc \in {"target", "scaled"} =>
          IF \E k \in 1..Len(time_str) : is_digit(time_str[k])
          THEN \E lo, hi \in 1..Len(time_str) :
                  /\ FirstDigitRun(time_str, lo, hi)
                  /\ target_days = PlaceValue(time_str, lo, hi)
          ELSE target_days = 120

\* C15 witness: a text with two numbers was parsed to the first one, which
\* differs from the second
C15_Witness ==
    /\ scale_pc = "target"
    /\ \E i, j, k \in 1..Len(time_str) :
          /\ i < j /\ j < k
          /\ is_digit(time_str[i]) /\ ~is_digit(time_str[j]) /\ is_digit(time_str[k])
          /\ DigitValue(time_str[i]) /= DigitValue(time_str[k])
          /\ target_days = DigitValue(time_str[i])

----------------------------------------------------------------------------
(* Properties of the formatters (SpecFormat) *)

KnownTypes == {"simple_text", "table", "structured_content"}

Logged(key, line) ==
    \E i \in 1..Len(format_log) : format_log[i] = [key |-> key, line |-> line]

Listed(key) ==
    \E i \in 1..Len(formatting_summary.formatted_placeholders) :
        formatting_summary.formatted_placeholders[i] = key

\* the formatter run that printed format_log is format_all_extracted_content
LastRunFormatAll ==
    /\ formatting_summary.exists
    /\ \A k \in Keys : ~Logged(k, "Formatting as conditional table")

\* the entries of the store that were extracted successfully
SuccessEntries ==
    { master_data.placeholders[j] : j \in
        { i \in 1..Len(master_data.placeholders) :
            master_data.extraction_log[master_data.placeholders[i].key] = "success" } }

UnknownEntries == { e \in SuccessEntries : e.type \notin KnownTypes }

\* the artifact is one paragraph (no table) whose runs are in the system font
PlainTextArtifact(file) ==
    /\ file.exists
    /\ Len(file.blocks) = 1
    /\ file.blocks[1].kind = "p"
    /\ \A r \in 1..Len(file.blocks[1].runs) :
          file.blocks[1].runs[r].font = [name |-> "Times New Roman", size |-> 14]

ArtifactText(file) == Concat([r \in 1..Len(file.blocks[1].runs) |->
                                 file.blocks[1].runs[r].text])

\* the text is the string conversion of the payload: the string itself, "None"
\* for a missing payload, a bracketed rendering of a list or a dict
IsStringOf(text, payload) ==
    IF payload.form = "str" THEN text = payload.text
    ELSE IF payload.form = "none" THEN text = <<"None">>
    ELSE /\ Len(text) >= 2
         /\ text[1] = (IF payload.form = "list" THEN "[" ELSE "{")
         /\ text[Len(text)] = (IF payload.form = "list" THEN "]" ELSE "}")

\* the string of the payload holds a control character
Unwritable(payload) ==
    payload.form = "str" /\ \E i \in 1..Len(payload.text) : payload.text[i] = "<FF>"

\* C16 as stated: a successfully extracted fragment of unknown type is always
\* formatted: after the formatter ran its key is listed, its artifact is a
\* plain-text paragraph holding the string conversion of the payload, and the
\* warning is in the run log.
C16_UnknownTypeAlwaysFormatted ==
    LastRunFormatAll =>
        \A e \in UnknownEntries :
            /\ Logged(e.key, "Unknown content type, defaulting to simple text")
            /\ Listed(e.key)
            /\ PlainTextArtifact(formatted_files[e.key])
            /\ IsStringOf(ArtifactText(formatted_files[e.key]), e.content)

\* C16 amended: the formatter can always run on a store with entries (the
\* dispatcher never raises); for a fragment of unknown type the warning is
\* logged; the key is listed with a plain-text artifact holding the string
\* conversion of the payload unless that string holds a control character,
\* and then the error is logged and the key is not listed.
C16_UnknownTypeFormattedUnlessUnwritable ==
    /\ (gen_pc = "idle" /\ master_data.exists /\ master_data.placeholders /= <<>>)
          => ENABLED FormatAllExtractedContent
    /\ LastRunFormatAll =>
          \A e \in UnknownEntries :
              /\ Logged(e.key, "Unknown content type, defaulting to simple text")
              /\ IF Unwritable(e.content)
                 THEN ~Listed(e.key) /\ Logged(e.key, "Error in formatter")
                 ELSE /\ Listed(e.key)
                      /\ PlainTextArtifact(formatted_files[e.key])
                      /\ IsStringOf(ArtifactText(formatted_files[e.key]), e.content)

\* C16 witness: a dict payload of unknown type was formatted to a plain-text
\* artifact that is listed
C16_Witness ==
    /\ LastRunFormatAll
    /\ \E e \in UnknownEntries :
          /\ e.content.form = "dict"
          /\ e.content.step_count = 22
          /\ Listed(e.key)
          /\ PlainTextArtifact(formatted_files[e.key])
          /\ Len(ArtifactText(formatted_files[e.key])) > 2

\* the payload is empty, or is not of the form its type's formatter reads
EmptyOrMalformed(e) ==
    \/ e.content.form = "none"
    \/ e.content.form \in {"str", "list", "table"} /\ e.content.text = <<>>
    \/ e.content.form = "dict" /\ e.content.step_count = 0 /\ e.content.source_file = ""
    \/ e.type = "simple_text" /\ (e.content.form /= "str" \/ Unwritable(e.content))
    \/ e.type = "table" /\ e.content.form /= "table"
    \/ e.type = "structured_content" /\ e.content.form /= "list"

\* C17: a successfully extracted fragment of a known type whose payload is
\* empty or malformed is treated like a failed extraction: the formatter run
\* does not list its key, and every generated document still holds the
\* tokens of the key that its template holds.
C17_EmptyOrMalformedNeverFormatted ==
    \A e \in SuccessEntries :
        (e.type \in KnownTypes /\ EmptyOrMalformed(e)) =>
            /\ LastRunFormatAll => ~Listed(e.key)
            /\ \A n \in DocNames :
                  docx_dir[n].exists =>
                     TokenCount(docx_dir[n].blocks, e.key)
                        >= TokenCount(templates[n].blocks, e.key)

\* the entries of the store
StoreEntries ==
    { master_data.placeholders[j] : j \in 1..Len(master_data.placeholders) }

\* the variant the step_count of a payload stands for: 23 the 23-step
\* fragment, every other value (and no value) the 21-step fragment
VariantOf(payload) ==
    IF payload.step_count = 23 THEN "23_BUOC.docx" ELSE "21_BUOC.docx"

\* C18: when the conditional-table formatter has run on a payload, the
\* artifact is the copy of the variant its step_count selects (21 or 23, any
\* other value the 21 variant), whatever the other fields of the payload are,
\* and the fallback for another value is logged as a warning.
C18_VariantSelectedByStepCount ==
    \A e \in StoreEntries :
        (e.content.form = "dict" /\ Logged(e.key, "Formatting as conditional table")) =>
            /\ formatted_files[e.key].exists
            /\ formatted_files[e.key].blocks /= <<>>
            /\ formatted_files[e.key].blocks[1].runs[1].text = <<VariantOf(e.content)>>
            /\ e.content.step_count \notin {21, 23} =>
                  Logged(e.key, "Unexpected step count, defaulting to 21")

\* the payload CacBuocExtractor saves for a step count
ExtractedSteps(payload) ==
    /\ payload.form = "dict"
    /\ \/ payload.step_count = 21 /\ payload.source_file = "21_BUOC.docx"
       \/ payload.step_count = 23 /\ payload.source_file = "23_BUOC.docx"

\* C19: after the formatter ran, the key of a successfully extracted
\* table-typed fragment that carries a step_count is listed among the
\* formatted placeholders and its artifact is the conditional-table copy of
\* the variant.
C19_StepCountTableIsFormatted ==
    LastRunFormatAll =>
        \A e \in SuccessEntries :
            (e.type = "table" /\ ExtractedSteps(e.content)) =>
                /\ Listed(e.key)
                /\ formatted_files[e.key].exists
                /\ formatted_files[e.key].blocks[1].runs[1].text = <<VariantOf(e.content)>>

----------------------------------------------------------------------------
(* Properties of the store (Spec) *)

\* the positions of the fragments the store holds for a key
FragmentsOf(master, key) ==
    { j \in 1..Len(master.placeholders) : master.placeholders[j].key = key }

\* the store holds the same for the key: the same fragments and log entry
SameFor(old, new, key) ==
    /\ new.extraction_log[key] = old.extraction_log[key]
    /\ { new.placeholders[j] : j \in FragmentsOf(new, key) }
          = { old.placeholders[j] : j \in FragmentsOf(old, key) }

\* C20: every step that changes the store is the save of one key: the
\* fragments and log entries of all other keys are what they were, and the
\* store holds at most one fragment per key afterwards (a second save of a
\* key overwrites its entry).
C20_SaveTouchesOwnKeyOnly ==
    [][ master_data' /= master_data =>
          /\ \E k \in Keys : \A o \in Keys \ {k} : SameFor(master_data, master_data', o)
          /\ \A k \in Keys : Cardinality(FragmentsOf(master_data', k)) <= 1
      ]_vars

\* C20 witness: chu_dau_tu was saved with a value and then logged as failed
\* by a later extraction, beside the saved fragment of the other key
C20_Witness ==
    /\ Len(master_data.placeholders) = 2
    /\ \E j \in FragmentsOf(master_data, "chu_dau_tu") :
          master_data.placeholders[j].content.text = ExtractedValue
    /\ master_data.extraction_log["chu_dau_tu"] = "failed"
    /\ master_data.extraction_log["pham_vi_cung_cap"] = "success"
    /\ FragmentsOf(master_data, "pham_vi_cung_cap") /= {}

----------------------------------------------------------------------------
(* Properties of the loop over the documents (SpecGen) *)

\* the run of generate_all_documents reached its loop and has ended
LoopEnded == gen_pc = "done" /\ has_available_placeholders(formatting_summary)

\* the document is recorded in the generation summary
InSummary(n) ==
    \E i \in 1..Len(generation_summary.generated_documents) :
        generation_summary.generated_documents[i].file = n

\* an exception was raised while a key of the document was processed
RaisedIn(n) ==
    \E i \in 1..Len(run_log) : run_log[i].doc = n /\ run_log[i].outcome = "raised"

\* the documents whose generation ran to its end
Completed ==
    { i \in 1..Len(documents_to_generate) :
        /\ master_data.exists
        /\ templates[documents_to_generate[i]].exists
        /\ ~RaisedIn(documents_to_generate[i]) }

\* C21: when the loop has ended, a document whose template is missing is not
\* in generated_documents and has no output file, every other document whose
\* generation did not fail is recorded (also after a document with a missing
\* template), and the summary is written with total_documents the number of
\* documents generated.
C21_MissingTemplateSkipsOneDocument ==
    LoopEnded =>
        /\ generation_summary.exists
        /\ \A i \in 1..Len(documents_to_generate) :
              /\ ~templates[documents_to_generate[i]].exists =>
                    /\ ~InSummary(documents_to_generate[i])
                    /\ ~docx_dir[documents_to_generate[i]].exists
              /\ i \in Completed => InSummary(documents_to_generate[i])
        /\ generation_summary.total_documents = Cardinality(Completed)
        /\ generation_summary.total_documents
              = Len(generation_summary.generated_documents)

\* C21 witness: the first template is missing, the second document was
\* generated after it and is the only one in the summary
C21_Witness ==
    /\ LoopEnded
    /\ ~templates[documents_to_generate[1]].exists
    /\ docx_dir[documents_to_generate[2]].exists
    /\ InSummary(documents_to_generate[2])
    /\ generation_summary.total_documents = 1

----------------------------------------------------------------------------
(* Properties of the baseline tables (SpecScale) *)

\* C27: the baseline table a chart was scaled from sums to exactly 100 days
\* (200 half days), so that the scaling ratio was target / 100.
C27_BaselineSumsTo100 ==
    scale_pc = "scaled" => base_total(timeline_base(step_count)) = 2 * 100

\* C28: the chart is scaled from the baseline of the variant whose fragment
\* determine_source_file chooses for the stored step_count: 21 weights with
\* 21_BUOC.docx, 23 weights with 23_BUOC.docx.
C28_ChartAndFragmentSameVariant ==
    scale_pc = "scaled" =>
        (Len(scaled_timeline) = 21 <=> determine_source_file(step_count) = "21_BUOC.docx")

\* ---------------------------------------------------------------------
\* Template resources
\* ---------------------------------------------------------------------

\* C23: no step of the extractors, formatters or generators changes a file
\* under templates/; every document written lies in the batch directories
C23_TemplatesNeverWritten == [][templates' = templates]_vars

\* template 15 was generated with its chart: the copy in the docx directory
\* differs from the template, which still holds its image token
C23_Witness ==
    /\ docx_dir[Template15Name].exists
    /\ docx_dir[Template15Name] # templates[Template15Name]
    /\ first_match(docx_dir[Template15Name].blocks, placeholder_tag("kh_thuc_hien")) = 0
    /\ first_match(templates[Template15Name].blocks, placeholder_tag("kh_thuc_hien")) # 0
    /\ formatted_files # [k \in Keys |-> NoFile]

\* ---------------------------------------------------------------------
\* Agreement of the format stage and the substitution stage
\* ---------------------------------------------------------------------

\* replace_placeholder_hybrid on a document whose only paragraph is the
\* token of the key, with the store and the artifacts as they are
SubstitutionOf(key) ==
    replace_placeholder_hybrid(<<Block("p", <<Run(placeholder_tag(key), PlainFormat)>>,
                                       "left")>>,
                               key, master_data, formatted_files)

\* C30: every key that format_all_extracted_content formatted and listed in
\* formatted_placeholders (whatever its type tag) is substituted by one of the
\* two strategies of replace_placeholder_hybrid, never rejected as an unknown
\* content type.
C30_ListedKeysAreSubstituted ==
    LastRunFormatAll =>
        \A k \in Keys :
            (Listed(k) /\ formatted_files[k].exists) => SubstitutionOf(k).replaced

\* ---------------------------------------------------------------------
\* The generation summary
\* ---------------------------------------------------------------------

\* the keys whose substitution returned success in a document
SubstitutedKeys(doc) ==
    { run_log[j].key : j \in { i \in 1..Len(run_log) :
                                 run_log[i].doc = doc /\ run_log[i].outcome = "replaced" } }

\* the keys the summary holds: its one list, written once for the run
RecordedKeys ==
    { generation_summary.available_placeholders[j] :
        j \in 1..Len(generation_summary.available_placeholders) }

\* C26 (as claimed): for each output document of the summary, the keys
\* recorded for it are exactly the keys whose substitution succeeded in it.
C26_RecordedKeysAreSubstitutedKeys ==
    generation_summary.exists =>
        \A j \in 1..Len(generation_summary.generated_documents) :
            RecordedKeys = SubstitutedKeys(generation_summary.generated_documents[j].file)

\* C26 (amended): the summary records per document the counts only, and once
\* for the run the list of keys attempted in every document; the keys whose
\* substitution succeeded in a document are among the listed keys, as many as
\* the document's substituted count, and the attempted count is the length of
\* the list.
C26_SubstitutedKeysAmongRecorded ==
    generation_summary.exists =>
        \A j \in 1..Len(generation_summary.generated_documents) :
            LET e == generation_summary.generated_documents[j]
            IN  /\ SubstitutedKeys(e.file) \subseteq RecordedKeys
                /\ e.placeholders_replaced = Cardinality(SubstitutedKeys(e.file))
                /\ e.total_placeholders = Len(generation_summary.available_placeholders)

\* a summary with a document in which one listed key was substituted and
\* another was not
C26_Witness ==
    /\ generation_summary.exists
    /\ \E j \in 1..Len(generation_summary.generated_documents) :
          LET e == generation_summary.generated_documents[j]
          IN  /\ SubstitutedKeys(e.file) # {}
              /\ SubstitutedKeys(e.file) # RecordedKeys

\* ---------------------------------------------------------------------
\* Column widths of the table formatter
\* ---------------------------------------------------------------------

\* C22: for every non-empty headers/rows payload each column width lies in
\* [0.6, 2.0] and the widths sum to the page-width budget of 7.0 (widths in
\* units of 1 / (10 * total_chars) inch).
C22_WidthsInBandAndSumToBudget ==
    table_pc = "done" =>
        LET total == total_chars(headers, rows)
        IN  /\ \A i \in 1..Len(column_widths) :
                  /\ min_width * total <= column_widths[i]
                  /\ column_widths[i] <= max_width * total
            /\ SumSeq(column_widths) = total_width * total

\* ---------------------------------------------------------------------
\* Cosmetic post-pass of the conditional table
\* ---------------------------------------------------------------------

\* the text is one letter, with or without a trailing parenthesis
SingleLetter(text) ==
    \/ Len(text) = 1 /\ text[1] \in Letters
    \/ Len(text) = 2 /\ text[1] \in Letters /\ text[2] = ")"

\* C24: the pass changes only first-column cells whose text is a single letter
\* (with or without ')'): such a cell becomes 'x)' centered and italic and the
\* pass is idempotent on it; every other cell (other columns, multi-letter
\* first-column cells, digits, empty cells) keeps its text.
C24_OnlySingleLettersChange ==
    cell_pc = "done" =>
        LET cell_text == strip(row_cells[1].text)
        IN  /\ SingleLetter(cell_text) =>
                  /\ fixed_cells[1] = Cell(<<cell_text[1], ")">>, "center", TRUE)
                  /\ fix_row(fixed_cells) = fixed_cells
            /\ ~SingleLetter(cell_text) => fixed_cells[1].text = row_cells[1].text
            /\ \A j \in 2..Len(row_cells) : fixed_cells[j] = row_cells[j]

\* ---------------------------------------------------------------------
\* Markdown round trip of a structured fragment
\* ---------------------------------------------------------------------

\* C29: for markdown of non-empty heading, bullet and paragraph lines, parsing
\* and then formatting emits one paragraph per source line in the order of the
\* source; a bullet after a plain paragraph is not moved ahead of it.
C29_OneParagraphPerLineInOrder ==
    md_pc = "formatted" =>
        emitted = [j \in 1..Len(markdown) |-> line_paragraph(markdown[j])]

\* ---------------------------------------------------------------------
\* Interleaved extractor invocations
\* ---------------------------------------------------------------------

\* what a store holds for a key: its entry (if any) and its log status
KeyPart(master, key) ==
    [entries |-> SelectSeq(master.placeholders, LAMBDA e : e.key = key),
     status  |-> master.extraction_log[key]]

\* C25: with interleaved loads and writes and no locking the last writer
\* wins: the store is what the last writer wrote from the store it had read,
\* and for every other key it holds what that read held, so an update made by
\* the other invocation between that read and the write is not retained.
C25_LastWriterWins ==
    last_writer \in Invocations =>
        /\ race_pc[last_writer] = "written" =>
              \E outcome \in extraction_outcomes(last_writer) :
                  master_data = written_store(loaded[last_writer], last_writer, outcome)
        /\ \A i \in Invocations \ {last_writer} :
              KeyPart(master_data, i) = KeyPart(loaded[last_writer], i)

\* both invocations have written, and the store holds nothing of the one that
\* wrote first: its update fell between the read and the write of the other
C25_Witness ==
    /\ last_writer \in Invocations
    /\ \E i \in Invocations \ {last_writer} :
          /\ race_pc[i] = "written"
          /\ race_pc[last_writer] = "written"
          /\ KeyPart(master_data, i) = [entries |-> <<>>, status |-> "absent"]

=============================================================================
